---- MODULE Spec2Model ----
(***************************************************************************)
(* Model of the dataflow evaluation engine of shader_compute_playground:   *)
(* Graph (src/graph.js), ShaderNode / TextureBufferNode (src/nodes.js),    *)
(* the editor operations of App (src/app.js) and the WebGLManager          *)
(* (src/physics.js).                                                       *)
(*                                                                         *)
(* Graph.evaluate is modelled as a step function on an evaluation record   *)
(* (one step per loop iteration, call or return of the JavaScript code).   *)
(* SpecOrder takes the steps one at a time on graphs drawn from bounded    *)
(* sets; Spec, the editor-level specification, runs them to completion in  *)
(* the single action evaluateGraph, as the single-threaded code does.      *)
(* SpecGraph holds the operations that build and change the graph, on      *)
(* larger graphs than Spec; SpecName the renaming of texture buffers.      *)
(* SpecBuffer resizes, draws on and clears one texture buffer; SpecRender  *)
(* evaluates graphs whose buffers are resized; SpecRestore saves the graph *)
(* to storage and restores it; SpecRemove removes nodes and edges, those   *)
(* the graph does not hold included; SpecConnect begins, cancels and       *)
(* completes connections while nodes are removed.                          *)
(***************************************************************************)
EXTENDS Integers, Sequences, FiniteSets, TLC

VARIABLES
    nodes,              \* Graph.nodes: the node list, in insertion order (node ids)
    edges,              \* Graph.edges: the edge list, in insertion order
    ntype,              \* Node.type of every node id ("none": no such node)
    name,               \* Node.name, a sequence of characters
    inputs,             \* Node.inputs.length
    code,               \* ShaderNode.code
    monaco,             \* the shader nodes whose editor widget has been created
    lastCode,           \* ShaderNode.lastCode (Undefined until the first compile)
    program,            \* ShaderNode.program (NullProgram or a handle into glPrograms)
    errorText,          \* the text shown in the node's error element (NoError: hidden)
    glPrograms,         \* the program objects created by gl.createProgram, by handle
    lastEval,           \* per shader node, what its evaluate() did in the Graph.evaluate call of tick
    compileAttempts,    \* per shader node, createProgram calls since its code last changed
    nodeIdCounter,      \* App.nodeIdCounter
    textureBufferCounter, \* App.textureBufferCounter
    shaderCounter,      \* App.shaderCounter
    tick,               \* the locals of the running / just returned Graph.evaluate call
    header,             \* per shader node, the uniform declarations its header element shows
    lastOp,             \* the editor operation that produced this state, as requested
    texture,            \* TextureBufferNode.texture / ShaderNode.outputTexture (a handle into glTextures)
    textureWidth,       \* TextureBufferNode.textureWidth
    textureHeight,      \* TextureBufferNode.textureHeight
    glTextures,         \* the texture objects created by gl.createTexture, by handle
    glFramebuffers,     \* the framebuffer objects created by gl.createFramebuffer: the texture each one is attached to
    storage,            \* localStorage['shaderPlaygroundState'] (NoState: nothing saved)
    pendingCode,        \* per restored shader node, the body its loadState timer will put into the editor
    restoreTimer,       \* the delayed callbacks of loadState still to run
    connectingFrom      \* App.connectingFrom: the node a connection is being drawn from (port 0)

\* ---------------------------------------------------------------- bounds

\* SpecConnect: connections begun, completed and cancelled among node removals.
ConnectNodes == 2
ConnectEdges == 2

\* SpecOrder: largest node list and edge list drawn by InitOrder.
OrderNodes == 3
OrderEdges == 3

\* Spec: nodes created, edges held and programs linked in one behaviour.
MaxNodes == 2
MaxEdges == 2
MaxPrograms == 2

\* compileAttempts stops counting here.
MaxAttempts == 2

\* SpecGraph: nodes created and edges held in one behaviour.
GraphNodes == 3
GraphEdges == 3

\* SpecName: nodes created, and the longest title typed.
NameNodes == 1
MaxNameLen == 3

\* SpecBuffer: nodes created, texture objects created, the white pixels an
\* image may hold when a further point edit is made, and the positions of a
\* point edit along each side of the preview (0 .. ClickSteps, in units of
\* side / ClickSteps).
BufferNodes == 1
MaxTextures == 3
MaxWhite == 9
ClickSteps == 2

\* SpecRestore: nodes created, edges held and texture objects created between
\* two loads of the page.
RestoreNodes == 2
RestoreEdges == 1
RestoreTextures == 2

\* SpecRemove: nodes created and edges held.
RemoveNodes == 2
RemoveEdges == 2

\* SpecRender: nodes created, edges held and texture objects created.
RenderNodes == 2
RenderEdges == 1
RenderTextures == 3

\* The largest of a set of numbers.
MaxOf(S) == CHOOSE x \in S : \A y \in S : y <= x

NodeIds == 0 .. (MaxOf({OrderNodes, MaxNodes, GraphNodes, NameNodes, BufferNodes,
                           RenderNodes, RestoreNodes, RemoveNodes,
                           ConnectNodes}) - 1)

TextureBuffer == "texture-buffer"
Shader == "shader"
NoNode == "none"

\* ShaderNode.program before the first compile (handles count from 1).
NullProgram == 0
\* ShaderNode.lastCode before the first compile.
Undefined == "undefined"
\* The error element's text when clearError has hidden it.
NoError == ""
\* No exception escaped a call.
NoException == "none"

\* this.connectingFrom = null: no connection is being drawn.
NotConnecting == -1

\* ShaderNode.outputTexture before the first evaluate (handles count from 1).
NoTexture == 0
\* A texture with no entry in WebGLManager.framebuffers (handles count from 1).
NoFramebuffer == 0
\* The side of the texture App.createTextureBuffer asks for, and the default of
\* loadState and of a shader's own output texture.
DefaultTextureSize == 512

\* JavaScript numbers, as far as dimensions need them: an integer, NaN, or the
\* null that JSON.stringify writes for NaN.
Num(v) == [kind |-> "number", v |-> v]
NaN == [kind |-> "NaN", v |-> 0]
null == [kind |-> "null", v |-> 0]
IsInteger(d) == d.kind = "number"

\* ------------------------------------------------------------- sequences

Last(s) == s[Len(s)]
Front(s) == SubSeq(s, 1, Len(s) - 1)
Range(s) == {s[k] : k \in 1 .. Len(s)}
Includes(s, x) == \E k \in 1 .. Len(s) : s[k] = x

RECURSIVE SeqFilterIdx(_, _, _)
\* Array.prototype.filter, by index set: the elements at the kept indices, in order.
SeqFilterIdx(s, keep, k) ==
    IF k > Len(s) THEN <<>>
    ELSE IF k \in keep THEN <<s[k]>> \o SeqFilterIdx(s, keep, k + 1)
    ELSE SeqFilterIdx(s, keep, k + 1)

\* Mutant of SetAdd: the collection keeps an element added again.
SetAddAppends(s, x) == Append(s, x)

\* Set.prototype.add on an insertion-ordered Set kept as a sequence.
SetAdd(s, x) == IF Includes(s, x) THEN s ELSE Append(s, x)

\* Sequences over S of length at most n.
SeqsUpTo(S, n) == UNION {[1 .. k -> S] : k \in 0 .. n}

RECURSIVE SortedSeq(_)
\* Array.prototype.sort((a, b) => a - b) of a set of numbers.
SortedSeq(S) ==
    IF S = {} THEN <<>>
    ELSE LET m == CHOOSE x \in S : \A y \in S : x <= y IN <<m>> \o SortedSeq(S \ {m})

\* ------------------------------------------------------------------ names

Letters == {"a", "b", "c", "d", "e", "f", "g", "h", "i", "j", "k", "l", "m", "n",
            "o", "p", "q", "r", "s", "t", "u", "v", "w", "x", "y", "z",
            "A", "B", "T", "X"}
Digits == {"0", "1", "2", "3", "4", "5", "6", "7", "8", "9"}

\* The decimal digit of a number below ten, as template literals print it.
DigitChar(k) == <<"0", "1", "2", "3", "4", "5", "6", "7", "8", "9">>[k + 1]

\* `tex_${this.textureBufferCounter++}`
TextureName(k) == <<"t", "e", "x", "_", DigitChar(k)>>

\* `shad_${this.shaderCounter++}`
ShaderName(k) == <<"s", "h", "a", "d", "_", DigitChar(k)>>

\* `input${toPort}`
InputName(port) == <<"i", "n", "p", "u", "t", DigitChar(port)>>

\* name.replace(/[^a-zA-Z0-9_]/g, '_')
ReplaceNonIdentifier(raw) ==
    [k \in 1 .. Len(raw) |->
        IF raw[k] \in Letters \cup Digits \cup {"_"} THEN raw[k] ELSE "_"]

\* Mutant of Sanitize: a leading digit gets no prefix.
SanitizeKeepsLeadingDigit(raw, fallback) ==
    LET replaced == ReplaceNonIdentifier(raw)
    IN IF replaced = <<>> \/ replaced = <<"_">> THEN fallback ELSE replaced

\* The sanitizing common to TextureBufferNode.setName and ShaderNode.setName.
Sanitize(raw, fallback) ==
    LET replaced == ReplaceNonIdentifier(raw)
        prefixed == IF replaced # <<>> /\ replaced[1] \in Digits
                    THEN <<"_">> \o replaced ELSE replaced
    IN IF prefixed = <<>> \/ prefixed = <<"_">> THEN fallback ELSE prefixed

RECURSIVE TrimStart(_)
\* String.prototype.trim, leading part.
TrimStart(raw) ==
    IF raw # <<>> /\ Head(raw) = " " THEN TrimStart(Tail(raw)) ELSE raw

RECURSIVE TrimEnd(_)
\* String.prototype.trim, trailing part.
TrimEnd(raw) ==
    IF raw # <<>> /\ raw[Len(raw)] = " " THEN TrimEnd(SubSeq(raw, 1, Len(raw) - 1))
    ELSE raw

\* titleEl.textContent.trim()
Trim(raw) == TrimEnd(TrimStart(raw))

TextureFallbackName ==
    <<"t", "e", "x", "t", "u", "r", "e", "B", "u", "f", "f", "e", "r">>
ShaderFallbackName == <<"s", "h", "a", "d", "e", "r">>

\* ----------------------------------------------------------------- Graph

getEdgesFrom(node) ==
    SeqFilterIdx(edges, {k \in 1 .. Len(edges) : edges[k].from = node}, 1)

\* Graph.getEdgesTo on the edge list es.
edgesTo(es, node) ==
    SeqFilterIdx(es, {k \in 1 .. Len(es) : es[k].to = node}, 1)

\* Mutant of getEdgesTo: the filter tests edge.from, so that the edges leaving
\* the node are returned.
getEdgesToTestsFrom(node) ==
    SeqFilterIdx(edges, {k \in 1 .. Len(edges) : edges[k].from = node}, 1)

getEdgesTo(node) ==
    SeqFilterIdx(edges, {k \in 1 .. Len(edges) : edges[k].to = node}, 1)

\* The `from` node of every edge of an edge list, in order.
Sources(es) == [k \in 1 .. Len(es) |-> es[k].from]

\* The `to` node of every edge of an edge list, in order.
Targets(es) == [k \in 1 .. Len(es) |-> es[k].to]

\* --------------------------------------------------- shader source, compiler

\* The body texts typed into the editor: empty, the editor's initial template,
\* a body that samples the uniform tex_0, and a body with a syntax error.
EmptyBody == ""
TemplateBody == "vec4 compute() { return vec4(1.0, 0.0, 0.0, 1.0); }"
SampleBody == "vec4 compute() { return texture(tex_0, v_texCoord); }"
BrokenBody == "vec4 compute() { return"
Bodies == {EmptyBody, TemplateBody, SampleBody, BrokenBody}

\* The uniforms a body reads.
BodyUniforms(body) == IF body = SampleBody THEN {TextureName(0)} ELSE {}

\* Mutant of inputDeclarations: one declaration per input slot of the node,
\* connected or not.
inputDeclarationsAllSlots(es, nm, node) ==
    LET incoming == edgesTo(es, node)
        inputName(port) ==
            IF \E j \in 1 .. Len(incoming) : incoming[j].toPort = port
            THEN LET k == CHOOSE j \in 1 .. Len(incoming) :
                            /\ incoming[j].toPort = port
                            /\ \A l \in (j + 1) .. Len(incoming) : incoming[l].toPort # port
                 IN IF ntype[incoming[k].from] = TextureBuffer /\ nm[incoming[k].from] # <<>>
                    THEN nm[incoming[k].from] ELSE InputName(port)
            ELSE InputName(port)
    IN [k \in 1 .. inputs[node] |-> inputName(k - 1)]

\* The uniform declarations that updateHeader and getFullShaderCode generate
\* (the same code in both) for edge list es and names nm: the names declared,
\* one per connected destination port, in ascending port order.
inputDeclarations(es, nm, node) ==
    LET incoming == edgesTo(es, node)
        connectedPorts == {incoming[k].toPort : k \in 1 .. Len(incoming)}
        \* inputNames[toPort] as the loop leaves it: the last edge on the port wins
        inputName(port) ==
            LET k == CHOOSE j \in 1 .. Len(incoming) :
                        /\ incoming[j].toPort = port
                        /\ \A l \in (j + 1) .. Len(incoming) : incoming[l].toPort # port
            IN IF ntype[incoming[k].from] = TextureBuffer
               THEN (IF nm[incoming[k].from] = <<>> THEN InputName(port)
                     ELSE nm[incoming[k].from])
               ELSE InputName(port)
        sortedPorts == SortedSeq(connectedPorts)
    IN [k \in 1 .. Len(sortedPorts) |-> inputName(sortedPorts[k])]

\* Mutant of fullShaderCode: the declarations follow the order in which the
\* edges were inserted.
fullShaderCodeInsertionOrder(es, nm, body, node) ==
    LET incoming == edgesTo(es, node) IN
    [declarations |->
        [k \in 1 .. Len(incoming) |->
            IF ntype[incoming[k].from] = TextureBuffer /\ nm[incoming[k].from] # <<>>
            THEN nm[incoming[k].from] ELSE InputName(incoming[k].toPort)],
     body |-> body]

\* The text getFullShaderCode returns for edge list es, names nm and body text
\* body: the uniform declarations and the body; the text around them is fixed.
fullShaderCode(es, nm, body, node) ==
    [declarations |-> inputDeclarations(es, nm, node), body |-> body]

\* ShaderNode.getFullShaderCode.
getFullShaderCode(node) == fullShaderCode(edges, name, code[node], node)

\* The GLSL compiler and linker behind WebGLManager.createProgram: a fragment
\* source links unless its body has a syntax error, reads an undeclared
\* uniform, or the header declares one identifier twice.
Compiles(source) ==
    /\ source.body \notin {EmptyBody, BrokenBody}
    /\ BodyUniforms(source.body) \subseteq Range(source.declarations)
    /\ \A j, k \in 1 .. Len(source.declarations) :
            source.declarations[j] = source.declarations[k] => j = k

\* ------------------------------------------------- WebGLManager textures

\* gl.texImage2D with no source data: the texture gets an image of
\* width x height cleared pixels, unless a dimension is negative (INVALID_VALUE
\* is recorded, nothing is thrown and the texture has no image). NaN converts to
\* 0: an image without pixels.
texImage2D(width, height) ==
    /\ IsInteger(width) => width.v >= 0
    /\ IsInteger(height) => height.v >= 0

\* WebGLManager.createTexture(width, height) on the texture objects texs: a new
\* texture object with its image and its entry in textureDimensions. `pixels`
\* are the pixels point edits wrote opaque white, `rendered` tells that a render
\* pass wrote the image, `framebuffer` is the entry of WebGLManager.framebuffers.
createTexture(texs, width, height) ==
    Append(texs, [width |-> width, height |-> height,
                  allocated |-> texImage2D(width, height), deleted |-> FALSE,
                  pixels |-> {}, rendered |-> FALSE, framebuffer |-> NoFramebuffer])

\* Mutant of deleteTexture: the texture object is left as it is.
deleteTextureKeeps(texs, tex) == texs

\* gl.deleteTexture: the texture object is destroyed with its image.
deleteTexture(texs, tex) ==
    [texs EXCEPT ![tex].deleted = TRUE, ![tex].pixels = {}, ![tex].rendered = FALSE]

\* The texture has an image with at least one pixel.
HasPixels(tx) ==
    /\ tx.allocated /\ ~tx.deleted
    /\ IsInteger(tx.width) /\ tx.width.v > 0
    /\ IsInteger(tx.height) /\ tx.height.v > 0

\* this.textureDimensions.has(texture): createTexture sets the entry of every
\* texture it creates and nothing deletes an entry.
textureDimensionsHas(texs, tex) == tex \in 1 .. Len(texs)

\* Mutant of framebuffersGet: the lookup finds nothing.
framebuffersGetMisses(texs, tex) == NoFramebuffer

\* this.framebuffers.get(texture) in renderToTexture.
framebuffersGet(texs, tex) == texs[tex].framebuffer

\* WebGLManager.renderToTexture(texture, program, inputTextures) on the runtime
\* state r: the framebuffer of the texture is looked up, or created and stored,
\* and the quad is drawn over the whole image.
renderToTexture(r, tex) ==
    LET cached == framebuffersGet(r.glTextures, tex)
        framebuffer == IF cached = NoFramebuffer
                       THEN Len(r.glFramebuffers) + 1 ELSE cached
        drawn == HasPixels(r.glTextures[tex])
    IN [r EXCEPT !.glFramebuffers = IF cached = NoFramebuffer
                                    THEN Append(@, tex) ELSE @,
                 !.glTextures[tex].framebuffer = framebuffer,
                 !.glTextures[tex].rendered = @ \/ drawn,
                 !.glTextures[tex].pixels = IF drawn THEN {} ELSE @]

\* --------------------------------------------------------- ShaderNode.evaluate

\* The state Graph.evaluate reads and writes while it runs.
Runtime ==
    [lastCode |-> lastCode, program |-> program, errorText |-> errorText,
     glPrograms |-> glPrograms, lastEval |-> lastEval,
     compileAttempts |-> compileAttempts,
     texture |-> texture, glTextures |-> glTextures,
     glFramebuffers |-> glFramebuffers]

\* What an evaluate() call did: whether it got past the empty-code return,
\* whether the program it held was linked from another source than the one now
\* assembled, the createProgram call it made ("none", "ok", "failed"), the
\* program handles before and after, whether it reached renderToTexture, and
\* the exception that escaped the call (NoException: it returned). For a
\* texture buffer, `copied` holds the source textures its setInputTexture calls
\* were given in its last dispatch; for a shader, `inputTextures` holds what
\* the call bound.
NoEval ==
    [entered |-> FALSE, stale |-> FALSE, compile |-> "none",
     programBefore |-> NullProgram, programAfter |-> NullProgram, drew |-> FALSE,
     thrown |-> NoException, copied |-> <<>>, inputTextures |-> <<>>]

NoEvals == [k \in NodeIds |-> NoEval]

CompileErrorText == "Shader compilation error"

\* Mutant of catchError: the exception is thrown on to the caller of evaluate().
catchErrorRethrows(error) == error

\* The outer catch of ShaderNode.evaluate: it shows the message of an error that
\* is no compile or link error and throws nothing on.
catchError(error) == NoException

\* Mutant of clearError: the error element keeps its text.
clearErrorKeepsText(errs, node) == errs

\* ShaderNode.clearError on the error texts errs: the node's error element is
\* emptied and hidden.
clearError(errs, node) == [errs EXCEPT ![node] = NoError]

\* Mutant of codeChanged: every evaluate() call recompiles.
codeChangedAlways(r, node) == TRUE

\* The codeChanged test of evaluate.
codeChanged(r, node) == r.lastCode[node] # code[node]

\* ShaderNode.getOutputTexture(port): the texture of the first texture buffer
\* fed from that port, or the node's own output texture.
getOutputTexture(r, node, port) ==
    LET outgoingEdges == getEdgesFrom(node)
        direct == {k \in 1 .. Len(outgoingEdges) :
                        /\ outgoingEdges[k].fromPort = port
                        /\ ntype[outgoingEdges[k].to] = TextureBuffer}
    IN IF direct = {} THEN r.texture[node]
       ELSE r.texture[outgoingEdges[CHOOSE k \in direct : \A j \in direct : k <= j].to]

\* The inputTextures object evaluate() builds from the incoming edges, as the
\* assignments made in edge order: the uniform name, the source texture, and
\* the destination port of the edge the assignment was made for. Nothing is
\* assigned for an edge whose source has no texture or an empty name.
inputTextures(r, node) ==
    LET incomingEdges == getEdgesTo(node)
        sourceTexture(edge) ==
            IF ntype[edge.from] = TextureBuffer THEN r.texture[edge.from]
            ELSE IF ntype[edge.from] = Shader
            THEN getOutputTexture(r, edge.from, edge.fromPort)
            ELSE NoTexture
        uniformName(edge) ==
            IF ntype[edge.from] = TextureBuffer THEN name[edge.from]
            ELSE IF ntype[edge.from] = Shader THEN InputName(edge.toPort)
            ELSE <<>>
        bound == {k \in 1 .. Len(incomingEdges) :
                    /\ sourceTexture(incomingEdges[k]) # NoTexture
                    /\ uniformName(incomingEdges[k]) # <<>>}
        assigned == SeqFilterIdx(incomingEdges, bound, 1)
    IN [k \in 1 .. Len(assigned) |->
            [name |-> uniformName(assigned[k]),
             texture |-> sourceTexture(assigned[k]),
             toPort |-> assigned[k].toPort]]

\* ShaderNode.evaluate(webglManager, graph).
ShaderEvaluate(r0, node) ==
    IF code[node] = EmptyBody THEN [r0 EXCEPT !.lastEval[node] = NoEval]
    ELSE
    LET outgoingEdges == getEdgesFrom(node)
        bufferEdges == {k \in 1 .. Len(outgoingEdges) :
                            ntype[outgoingEdges[k].to] = TextureBuffer}
        \* the first texture buffer output, or the node's own output texture,
        \* created on first use
        r == IF bufferEdges = {} /\ r0.texture[node] = NoTexture
             THEN [r0 EXCEPT !.glTextures = createTexture(@, Num(DefaultTextureSize),
                                                          Num(DefaultTextureSize)),
                             !.texture[node] = Len(r0.glTextures) + 1]
             ELSE r0
        targetTexture ==
            IF bufferEdges = {} THEN r.texture[node]
            ELSE r.texture[outgoingEdges[CHOOSE k \in bufferEdges :
                                            \A j \in bufferEdges : k <= j].to]
        fullCode == getFullShaderCode(node)
        before == r.program[node]
        recompile == before = NullProgram \/ codeChanged(r, node)
        \* gl.deleteProgram(this.program)
        afterDelete == IF recompile /\ before # NullProgram
                       THEN [r.glPrograms EXCEPT ![before].deleted = TRUE]
                       ELSE r.glPrograms
        ok == Compiles(fullCode)
        handle == Len(r.glPrograms) + 1
        seen == [entered |-> TRUE,
                 stale |-> before # NullProgram /\ r.glPrograms[before].source # fullCode,
                 compile |-> IF ~recompile THEN "none" ELSE IF ok THEN "ok" ELSE "failed",
                 programBefore |-> before,
                 programAfter |-> IF recompile /\ ok THEN handle ELSE before,
                 drew |-> ~recompile \/ ok,
                 thrown |-> IF recompile /\ ~ok
                            THEN catchError(CompileErrorText) ELSE NoException,
                 copied |-> <<>>,
                 inputTextures |-> inputTextures(r0, node)]
        attempts == IF recompile /\ r.compileAttempts[node] < MaxAttempts
                    THEN r.compileAttempts[node] + 1 ELSE r.compileAttempts[node]
    IN IF ~recompile THEN
            \* renderToTexture with the program held
            renderToTexture([r EXCEPT !.lastEval[node] = seen], targetTexture)
       ELSE IF ok THEN
            \* createProgram returned: program, lastCode, clearError, then the draw
            renderToTexture(
                [r EXCEPT !.glPrograms = Append(afterDelete,
                                                [source |-> fullCode, deleted |-> FALSE]),
                          !.program[node] = handle,
                          !.lastCode[node] = code[node],
                          !.errorText = clearError(@, node),
                          !.compileAttempts[node] = attempts,
                          !.lastEval[node] = seen],
                targetTexture)
       ELSE
            \* createProgram threw: showError, rethrow, caught by the outer catch
            [r EXCEPT !.glPrograms = afterDelete,
                      !.errorText[node] = CompileErrorText,
                      !.compileAttempts[node] = attempts,
                      !.lastEval[node] = seen]

\* ------------------------------------------- Graph.getEvaluationOrder steps

\* The locals of a Graph.evaluate call before it starts.
IdleTick ==
    [pc |-> "idle", i |-> 1, visited |-> {}, visiting |-> {}, order |-> <<>>,
     cycles |-> <<>>, stack |-> <<>>, visitCalls |-> 0,
     ci |-> 1, fcVisited |-> {}, fcStack |-> <<>>, findCalls |-> 0,
     cycleNodes |-> <<>>, log |-> <<>>, steps |-> 0]

\* Mutant of StartTick: the loop over this.nodes starts at the second node.
StartTickSkipsFirstNode == [IdleTick EXCEPT !.pc = "order", !.i = 2]

\* evaluate() entered: getEvaluationOrder starts with fresh sets.
StartTick == [IdleTick EXCEPT !.pc = "order"]

\* Mutant of visit: no test of the `visiting` set, so a node on the recursion
\* stack is entered again.
visitWithoutCycleTest(t, node) ==
    LET c == [t EXCEPT !.visitCalls = @ + 1] IN
    IF node \in c.visited THEN c
    ELSE [c EXCEPT !.visiting = @ \cup {node},
                   !.stack = Append(@, [node |-> node,
                                        todo |-> Sources(getEdgesTo(node))])]

\* Mutant of visit: no test of the `visited` set, so a node that is a
\* dependency of several nodes is entered for each of them.
visitWithoutVisitedTest(t, node) ==
    LET c == [t EXCEPT !.visitCalls = @ + 1] IN
    IF node \in c.visiting THEN [c EXCEPT !.cycles = Append(@, node)]
    ELSE [c EXCEPT !.visiting = @ \cup {node},
                   !.stack = Append(@, [node |-> node,
                                        todo |-> Sources(getEdgesTo(node))])]

\* visit(node): the entry of the recursive closure.
visit(t, node) ==
    LET c == [t EXCEPT !.visitCalls = @ + 1] IN
    IF node \in c.visiting THEN [c EXCEPT !.cycles = Append(@, node)]
    ELSE IF node \in c.visited THEN c
    ELSE [c EXCEPT !.visiting = @ \cup {node},
                   !.stack = Append(@, [node |-> node,
                                        todo |-> Sources(getEdgesTo(node))])]

\* Mutant of OrderStep: the tail of visit leaves the node in `visiting`.
OrderStepKeepsVisiting(t) ==
    IF t.stack # <<>> THEN
        LET top == Last(t.stack) IN
        IF top.todo # <<>> THEN
            visit([t EXCEPT !.stack[Len(t.stack)].todo = Tail(@)], Head(top.todo))
        ELSE
            [t EXCEPT !.visited = @ \cup {top.node},
                      !.order = Append(@, top.node),
                      !.stack = Front(@)]
    ELSE IF t.i <= Len(nodes) THEN
        LET c == [t EXCEPT !.i = @ + 1] IN
        IF nodes[t.i] \notin t.visited THEN visit(c, nodes[t.i]) ELSE c
    ELSE [t EXCEPT !.pc = "pass1", !.i = 1]

\* One step of getEvaluationOrder: an iteration of the loop over incomingEdges,
\* the tail of visit, or an iteration of the loop over this.nodes.
OrderStep(t) ==
    IF t.stack # <<>> THEN
        LET top == Last(t.stack) IN
        IF top.todo # <<>> THEN
            visit([t EXCEPT !.stack[Len(t.stack)].todo = Tail(@)], Head(top.todo))
        ELSE
            [t EXCEPT !.visiting = @ \ {top.node},
                      !.visited = @ \cup {top.node},
                      !.order = Append(@, top.node),
                      !.stack = Front(@)]
    ELSE IF t.i <= Len(nodes) THEN
        LET c == [t EXCEPT !.i = @ + 1] IN
        IF nodes[t.i] \notin t.visited THEN visit(c, nodes[t.i]) ELSE c
    ELSE [t EXCEPT !.pc = "pass1", !.i = 1]

RECURSIVE RunOrder(_)
\* getEvaluationOrder from its current step to its return.
RunOrder(t) == IF t.pc # "order" THEN t ELSE RunOrder(OrderStep(t))

\* Graph.getEvaluationOrder() on the graph as it is: { order, cycles }.
getEvaluationOrder ==
    LET t == RunOrder(StartTick) IN [order |-> t.order, cycles |-> t.cycles]

\* ----------------------------------------------------- Graph.evaluate steps

\* TextureBufferNode.setInputTexture(texture): the copy pass, a render into the
\* buffer's own texture with the given texture bound as u_texture.
setInputTexture(r, node, sourceTexture) ==
    renderToTexture([r EXCEPT !.lastEval[node].copied = Append(@, sourceTexture)],
                    r.texture[node])

RECURSIVE updateTextureBufferInput(_, _, _)
\* Graph.updateTextureBufferInput over the incoming edges es of a texture
\* buffer: every edge into port 0 whose source has a texture has the buffer run
\* setInputTexture, a render of the source into the buffer's own texture. (The
\* copy program setInputTexture links once from a constant source is not
\* carried.)
updateTextureBufferInput(r, node, es) ==
    IF es = <<>> THEN r
    ELSE LET edge == Head(es)
             sourceTexture == IF ntype[edge.from] = TextureBuffer
                              THEN r.texture[edge.from]
                              ELSE getOutputTexture(r, edge.from, edge.fromPort)
         IN updateTextureBufferInput(
                IF edge.toPort = 0 /\ sourceTexture # NoTexture
                THEN setInputTexture(r, node, sourceTexture) ELSE r,
                node, Tail(es))

\* The kind-specific dispatch of one node in a pass of evaluate; s.t are the
\* locals of evaluate and s.r the runtime state. A shader runs its evaluate();
\* a texture buffer runs updateTextureBufferInput and updatePreview.
Dispatch(s, node, pass) ==
    LET r == IF ntype[node] = Shader THEN ShaderEvaluate(s.r, node)
             ELSE updateTextureBufferInput([s.r EXCEPT !.lastEval[node] = NoEval],
                                           node, getEdgesTo(node))
        escaped == ntype[node] = Shader /\ r.lastEval[node].thrown # NoException
    IN [t |-> [s.t EXCEPT !.log = Append(@, [node |-> node, pass |-> pass]),
                          !.pc = IF escaped THEN "thrown" ELSE @],
        r |-> r]

\* The first loop of evaluate: the nodes of `order`, in order.
Pass1Step(s) ==
    IF s.t.i <= Len(s.t.order)
    THEN Dispatch([s EXCEPT !.t.i = @ + 1], s.t.order[s.t.i], 1)
    ELSE IF Len(s.t.cycles) > 0 THEN [s EXCEPT !.t.pc = "expand", !.t.ci = 1]
    ELSE [s EXCEPT !.t.pc = "done"]

\* Mutant of findCycleTargets: findCycleNodes follows no edge, so that only the
\* cycle entries themselves are collected.
findCycleTargetsNone(t, node) == <<>>

\* The targets findCycleNodes recurses into from `node`, in the order of the two loops.
findCycleTargets(t, node) ==
    LET outgoing == getEdgesFrom(node)
        incoming == getEdgesTo(node)
        outOk(e) == \E f \in Range(Sources(getEdgesTo(e.to))) :
                        f = node \/ Includes(t.cycles, f)
        inOk(e) == \E g \in Range(Targets(getEdgesFrom(e.from))) :
                        g = node \/ Includes(t.cycles, g)
        outs == SeqFilterIdx(outgoing, {k \in 1 .. Len(outgoing) : outOk(outgoing[k])}, 1)
        ins == SeqFilterIdx(incoming, {k \in 1 .. Len(incoming) : inOk(incoming[k])}, 1)
    IN Targets(outs) \o Sources(ins)

\* findCycleNodes(node, visited): the entry of the recursive closure.
findCycleNodes(t, node) ==
    LET c == [t EXCEPT !.findCalls = @ + 1] IN
    IF node \in c.fcVisited THEN c
    ELSE [c EXCEPT !.fcVisited = @ \cup {node},
                   !.cycleNodes = SetAdd(@, node),
                   !.fcStack = Append(@, [node |-> node,
                                          todo |-> findCycleTargets(t, node)])]

\* One step of the cycle-component expansion: an iteration inside findCycleNodes,
\* its return, or an iteration of the loop over `cycles`.
ExpandStep(t) ==
    IF t.fcStack # <<>> THEN
        LET top == Last(t.fcStack) IN
        IF top.todo # <<>> THEN
            findCycleNodes([t EXCEPT !.fcStack[Len(t.fcStack)].todo = Tail(@)],
                           Head(top.todo))
        ELSE [t EXCEPT !.fcStack = Front(@)]
    ELSE IF t.ci <= Len(t.cycles) THEN
        findCycleNodes([t EXCEPT !.ci = @ + 1,
                                 !.cycleNodes = SetAdd(@, t.cycles[t.ci]),
                                 !.fcVisited = {}],
                       t.cycles[t.ci])
    ELSE [t EXCEPT !.pc = "pass2", !.i = 1]

\* The second loop of evaluate: Array.from(cycleNodes), in insertion order.
Pass2Step(s) ==
    IF s.t.i <= Len(s.t.cycleNodes)
    THEN Dispatch([s EXCEPT !.t.i = @ + 1], s.t.cycleNodes[s.t.i], 2)
    ELSE [s EXCEPT !.t.pc = "done"]

\* One step of Graph.evaluate; `steps` counts the steps taken by the call.
EvaluateStep(s) ==
    LET c == [s EXCEPT !.t.steps = @ + 1] IN
    CASE s.t.pc = "order" -> [c EXCEPT !.t = OrderStep(c.t)]
      [] s.t.pc = "pass1" -> Pass1Step(c)
      [] s.t.pc = "expand" -> [c EXCEPT !.t = ExpandStep(c.t)]
      [] s.t.pc = "pass2" -> Pass2Step(c)
      [] OTHER -> s

RECURSIVE RunEvaluate(_)
\* Graph.evaluate from its current step to its return.
RunEvaluate(s) ==
    IF s.t.pc \in {"done", "thrown"} THEN s ELSE RunEvaluate(EvaluateStep(s))

graphVars == <<nodes, edges, ntype, name, inputs>>
editorVars == <<code, monaco>>
runtimeVars == <<lastCode, program, errorText, glPrograms, lastEval, compileAttempts>>
counterVars == <<nodeIdCounter, textureBufferCounter, shaderCounter>>
sizeVars == <<textureWidth, textureHeight>>
imageVars == <<texture, glTextures, glFramebuffers>>
restoreVars == <<pendingCode, restoreTimer>>
vars == <<graphVars, editorVars, runtimeVars, counterVars, tick, header, lastOp,
          sizeVars, imageVars, storage, restoreVars, connectingFrom>>

\* The runtime variables take the values of the record r.
SetRuntime(r) ==
    /\ lastCode' = r.lastCode
    /\ program' = r.program
    /\ errorText' = r.errorText
    /\ glPrograms' = r.glPrograms
    /\ lastEval' = r.lastEval
    /\ compileAttempts' = r.compileAttempts
    /\ texture' = r.texture
    /\ glTextures' = r.glTextures
    /\ glFramebuffers' = r.glFramebuffers

\* No editor operation acted since the graph was built or evaluated.
NoOp ==
    [op |-> "none", from |-> 0, fromPort |-> 0, to |-> 0, toPort |-> 0,
     raw |-> <<>>, delta |-> 0]

\* The request of an editor operation: its kind, the nodes and ports it was
\* called with, the title typed, and the change of the edge count it made.
Op(op, fromNode, fromPort, toNode, toPort, raw, delta) ==
    [op |-> op, from |-> fromNode, fromPort |-> fromPort, to |-> toNode,
     toPort |-> toPort, raw |-> raw, delta |-> delta]

\* Mutant of updateHeader: the header elements keep what they show.
updateHeaderKeeps(hd, es, nm, S) == hd

\* ShaderNode.updateHeader(graph) called on the shader nodes S, with edge list
\* es and names nm: the header elements show the declarations generated.
updateHeader(hd, es, nm, S) ==
    [k \in NodeIds |-> IF k \in S THEN inputDeclarations(es, nm, k) ELSE hd[k]]

\* --------------------------------------------------------- App.saveState

\* localStorage before the first saveState.
NoState ==
    [saved |-> FALSE, nodes |-> <<>>, edges |-> <<>>,
     counters |-> [nodeId |-> 0, textureBuffer |-> 0, shader |-> 0]]

\* No loadState timer holds a body for the node.
NothingPending == ""

\* JSON.stringify of a number: NaN is written as null.
stringifyNumber(d) == IF d.kind = "NaN" THEN null ELSE d

\* The nodeData object saveState builds for a node (position and size of the
\* node's element are not carried; a shader has the one output output0).
nodeData(node) ==
    [id |-> node, type |-> ntype[node], name |-> name[node],
     textureWidth |-> IF ntype[node] = TextureBuffer
                      THEN stringifyNumber(textureWidth[node]) ELSE null,
     textureHeight |-> IF ntype[node] = TextureBuffer
                       THEN stringifyNumber(textureHeight[node]) ELSE null,
     code |-> IF ntype[node] = Shader THEN code[node] ELSE EmptyBody,
     inputs |-> IF ntype[node] = Shader THEN inputs[node] ELSE 0]

\* The state object saveState writes: the nodes in list order, the edge
\* tuples in list order, and the counters.
Snapshot ==
    [saved |-> TRUE,
     nodes |-> [k \in 1 .. Len(nodes) |-> nodeData(nodes[k])],
     edges |-> edges,
     counters |-> [nodeId |-> nodeIdCounter, textureBuffer |-> textureBufferCounter,
                   shader |-> shaderCounter]]

\* App.saveState, called at the end of a handler: localStorage holds the state
\* the handler leaves.
saveState == storage' = Snapshot'

\* ------------------------------------------------------------- SpecOrder

EdgeValues == [from : NodeIds, fromPort : {0}, to : NodeIds, toPort : {0}]

\* Graphs handed to Graph.evaluate: every node list 0..n-1 and every edge list
\* between those nodes (self-loops and parallel edges included). The ordering
\* never reads Node.type; buffers and shaders alternate, each as constructed
\* and with the editor's template as the shader body.
InitOrder ==
    /\ \E n \in 1 .. OrderNodes :
        /\ nodes = [k \in 1 .. n |-> k - 1]
        /\ edges \in SeqsUpTo({e \in EdgeValues : e.from < n /\ e.to < n}, OrderEdges)
        /\ ntype = [k \in NodeIds |-> IF k >= n THEN NoNode
                                      ELSE IF k % 2 = 0 THEN TextureBuffer ELSE Shader]
        /\ monaco = {k \in NodeIds : k < n /\ k % 2 = 1}
        /\ code = [k \in NodeIds |-> IF k < n /\ k % 2 = 1 THEN TemplateBody ELSE EmptyBody]
        /\ nodeIdCounter = n
        /\ textureBufferCounter = (n + 1) \div 2
        /\ shaderCounter = n \div 2
    /\ name = [k \in NodeIds |-> IF k % 2 = 0 THEN TextureName(k \div 2)
                                 ELSE ShaderName(k \div 2)]
    /\ inputs = [k \in NodeIds |-> 1]
    /\ lastCode = [k \in NodeIds |-> Undefined]
    /\ program = [k \in NodeIds |-> NullProgram]
    /\ errorText = [k \in NodeIds |-> NoError]
    /\ glPrograms = <<>>
    /\ lastEval = NoEvals
    /\ compileAttempts = [k \in NodeIds |-> 0]
    /\ tick = IdleTick
    /\ header = updateHeader([k \in NodeIds |-> <<>>], edges, name,
                             {k \in NodeIds : ntype[k] = Shader})
    /\ lastOp = NoOp
    /\ texture = [k \in NodeIds |-> IF ntype[k] = TextureBuffer
                                     THEN (k \div 2) + 1 ELSE NoTexture]
    /\ textureWidth = [k \in NodeIds |-> IF ntype[k] = TextureBuffer
                                          THEN Num(DefaultTextureSize) ELSE null]
    /\ textureHeight = textureWidth
    /\ glTextures = [h \in 1 .. textureBufferCounter |->
                        Last(createTexture(<<>>, Num(DefaultTextureSize),
                                           Num(DefaultTextureSize)))]
    /\ glFramebuffers = <<>>
    /\ storage = NoState
    /\ pendingCode = [k \in NodeIds |-> NothingPending]
    /\ restoreTimer = "none"
    /\ connectingFrom = NotConnecting

\* evaluate() is called.
BeginEvaluate ==
    /\ tick.pc = "idle"
    /\ tick' = StartTick
    /\ UNCHANGED <<graphVars, editorVars, runtimeVars, counterVars, header, lastOp,
                   sizeVars, imageVars, storage, restoreVars, connectingFrom>>

\* evaluate() takes one step.
StepEvaluate ==
    /\ tick.pc \notin {"idle", "done", "thrown"}
    /\ LET s == EvaluateStep([t |-> tick, r |-> Runtime]) IN
        /\ tick' = s.t
        /\ SetRuntime(s.r)
    /\ UNCHANGED <<graphVars, editorVars, counterVars, header, lastOp,
                   sizeVars, storage, restoreVars, connectingFrom>>

NextOrder == BeginEvaluate \/ StepEvaluate

SpecOrder == InitOrder /\ [][NextOrder]_vars

\* ------------------------------------------------------------------ Spec

\* The titles typed into a node's title element.
RawNames == {<<"A", " ", "B">>}

\* The state after `new App()` with nothing saved: an empty graph.
Init ==
    /\ nodes = <<>>
    /\ edges = <<>>
    /\ ntype = [k \in NodeIds |-> NoNode]
    /\ name = [k \in NodeIds |-> <<>>]
    /\ inputs = [k \in NodeIds |-> 0]
    /\ code = [k \in NodeIds |-> EmptyBody]
    /\ monaco = {}
    /\ lastCode = [k \in NodeIds |-> Undefined]
    /\ program = [k \in NodeIds |-> NullProgram]
    /\ errorText = [k \in NodeIds |-> NoError]
    /\ glPrograms = <<>>
    /\ lastEval = NoEvals
    /\ compileAttempts = [k \in NodeIds |-> 0]
    /\ nodeIdCounter = 0
    /\ textureBufferCounter = 0
    /\ shaderCounter = 0
    /\ tick = IdleTick
    /\ header = [k \in NodeIds |-> <<>>]
    /\ lastOp = NoOp
    /\ texture = [k \in NodeIds |-> NoTexture]
    /\ textureWidth = [k \in NodeIds |-> null]
    /\ textureHeight = [k \in NodeIds |-> null]
    /\ glTextures = <<>>
    /\ glFramebuffers = <<>>
    /\ storage = NoState
    /\ pendingCode = [k \in NodeIds |-> NothingPending]
    /\ restoreTimer = "none"
    /\ connectingFrom = NotConnecting

\* An editor operation runs after Graph.evaluate has returned: the locals of the
\* call and the record of what it did are gone.
ForgetTick == tick' = IdleTick /\ lastEval' = NoEvals

editVars == <<lastCode, program, errorText, glPrograms, compileAttempts>>

\* Graph.addNode, after App.nodes.push.
addNode(node) == nodes' = Append(nodes, node)

\* App.createTextureBuffer: a 512 x 512 buffer named tex_<counter>.
createTextureBuffer ==
    /\ LET node == nodeIdCounter IN
        /\ ntype' = [ntype EXCEPT ![node] = TextureBuffer]
        /\ name' = [name EXCEPT ![node] = TextureName(textureBufferCounter)]
        /\ inputs' = [inputs EXCEPT ![node] = 1]
        /\ addNode(node)
    /\ nodeIdCounter' = nodeIdCounter + 1
    /\ textureBufferCounter' = textureBufferCounter + 1
    /\ textureWidth' = [textureWidth EXCEPT ![nodeIdCounter] = Num(DefaultTextureSize)]
    /\ textureHeight' = [textureHeight EXCEPT ![nodeIdCounter] = Num(DefaultTextureSize)]
    /\ glTextures' = createTexture(glTextures, Num(DefaultTextureSize),
                                   Num(DefaultTextureSize))
    /\ texture' = [texture EXCEPT ![nodeIdCounter] = Len(glTextures) + 1]
    /\ ForgetTick
    /\ lastOp' = NoOp
    /\ UNCHANGED <<edges, editorVars, editVars, shaderCounter, header,
                   glFramebuffers, restoreVars, connectingFrom>>
    /\ saveState

\* App.createShaderNode: a shader named shad_<counter> with the input input0;
\* its constructor leaves code empty and schedules initMonaco.
createShaderNode ==
    /\ LET node == nodeIdCounter IN
        /\ ntype' = [ntype EXCEPT ![node] = Shader]
        /\ name' = [name EXCEPT ![node] = ShaderName(shaderCounter)]
        /\ inputs' = [inputs EXCEPT ![node] = 1]
        /\ addNode(node)
    /\ nodeIdCounter' = nodeIdCounter + 1
    /\ shaderCounter' = shaderCounter + 1
    /\ ForgetTick
    /\ lastOp' = NoOp
    /\ UNCHANGED <<edges, editorVars, editVars, textureBufferCounter, header,
                   sizeVars, imageVars, restoreVars, connectingFrom>>
    /\ saveState

\* The shader nodes whose next evaluate() calls createProgram.
PendingCompiles(codeNow) ==
    {n \in NodeIds : /\ ntype[n] = Shader
                     /\ codeNow[n] # EmptyBody
                     /\ (program[n] = NullProgram \/ lastCode[n] # codeNow[n])}

\* Body changes stop when the programs they can still link reach MaxPrograms.
WithinProgramBound(codeNow) ==
    Len(glPrograms) + Cardinality(PendingCompiles(codeNow)) <= MaxPrograms

\* ShaderNode.initMonaco once the editor can be created: the editor starts with
\* the template, which becomes the node's code, and the header is shown.
initMonaco(node) ==
    /\ ntype[node] = Shader
    /\ node \notin monaco
    /\ LET codeNow == [code EXCEPT ![node] = TemplateBody] IN
        /\ WithinProgramBound(codeNow)
        /\ code' = codeNow
    /\ monaco' = monaco \cup {node}
    /\ compileAttempts' = [compileAttempts EXCEPT ![node] = 0]
    /\ header' = updateHeader(header, edges, name, {node})
    /\ ForgetTick
    /\ lastOp' = NoOp
    /\ UNCHANGED <<graphVars, counterVars, lastCode, program, errorText, glPrograms,
                   sizeVars, imageVars, storage, restoreVars, connectingFrom>>

\* The editor's onDidChangeModelContent handler: the user changed the body.
setCode(node, body) ==
    /\ node \in monaco
    /\ body # code[node]
    /\ LET codeNow == [code EXCEPT ![node] = body] IN
        /\ WithinProgramBound(codeNow)
        /\ code' = codeNow
    /\ errorText' = clearError(errorText, node)
    /\ compileAttempts' = [compileAttempts EXCEPT ![node] = 0]
    /\ ForgetTick
    /\ lastOp' = NoOp
    /\ UNCHANGED <<graphVars, counterVars, monaco, lastCode, program, glPrograms,
                   header, sizeVars, imageVars, storage, restoreVars, connectingFrom>>

\* Graph.addEdge.
addEdge(fromNode, fromPort, toNode, toPort) ==
    edges' = Append(edges, [from |-> fromNode, fromPort |-> fromPort,
                            to |-> toNode, toPort |-> toPort])

\* Mutant of nextPort: the requested port is used as it is.
nextPortAsRequested(usedPorts, port) == port

\* The port createConnection assigns on a shader node: the requested port, or
\* the next port no edge uses.
RECURSIVE nextPort(_, _)
nextPort(usedPorts, port) ==
    IF port \in usedPorts THEN nextPort(usedPorts, port + 1) ELSE port

\* Mutant of connectionExists: no connection is taken for an existing one.
connectionExistsNever(fromNode, fromPort, toNode, toPort) == FALSE

\* The test at the head of createConnection: an edge with the same source,
\* source port, destination and destination port is in the edge list.
connectionExists(fromNode, fromPort, toNode, toPort) ==
    \E k \in 1 .. Len(edges) :
        edges[k] = [from |-> fromNode, fromPort |-> fromPort,
                    to |-> toNode, toPort |-> toPort]

\* The body of App.createConnection.
createConnectionBody(fromNode, fromPort, toNode, toPort) ==
    /\ IF connectionExists(fromNode, fromPort, toNode, toPort)
       THEN /\ lastOp' = Op("connect", fromNode, fromPort, toNode, toPort, <<>>, 0)
            /\ UNCHANGED <<edges, inputs, header>>
       ELSE LET existing == getEdgesTo(toNode)
                usedPorts == {existing[k].toPort : k \in 1 .. Len(existing)}
                port == IF ntype[toNode] = Shader THEN nextPort(usedPorts, toPort)
                        ELSE toPort
            IN /\ addEdge(fromNode, fromPort, toNode, port)
               /\ inputs' = [inputs EXCEPT ![toNode] =
                                IF ntype[toNode] = Shader /\ @ <= port
                                THEN port + 1 ELSE @]
               /\ header' = IF ntype[toNode] = Shader
                            THEN updateHeader(header, edges', name, {toNode})
                            ELSE header
               /\ lastOp' = Op("connect", fromNode, fromPort, toNode, toPort, <<>>, 1)
    /\ ForgetTick
    /\ UNCHANGED <<nodes, ntype, name, editorVars, editVars, counterVars,
                   sizeVars, imageVars, restoreVars>>
    /\ IF connectionExists(fromNode, fromPort, toNode, toPort)
       THEN UNCHANGED storage ELSE saveState

\* App.createConnection, as completeConnection calls it for a connection dragged
\* in one gesture from an output port of fromNode onto input port toPort of
\* another node.
createConnection(fromNode, fromPort, toNode, toPort) ==
    /\ fromNode # toNode
    /\ Includes(nodes, fromNode) /\ Includes(nodes, toNode)
    /\ toPort < inputs[toNode]
    /\ UNCHANGED connectingFrom
    /\ createConnectionBody(fromNode, fromPort, toNode, toPort)

\* App.startConnection on an output port of the node: mousedown.
startConnection(node) ==
    /\ Includes(nodes, node)
    /\ connectingFrom' = node
    /\ lastOp' = NoOp
    /\ ForgetTick
    /\ UNCHANGED <<graphVars, editorVars, editVars, counterVars, header,
                   sizeVars, imageVars, storage, restoreVars>>

\* App.cancelConnection, as onCanvasMouseUp calls it for a release off every
\* port.
cancelConnection ==
    /\ connectingFrom # NotConnecting
    /\ connectingFrom' = NotConnecting
    /\ lastOp' = NoOp
    /\ ForgetTick
    /\ UNCHANGED <<graphVars, editorVars, editVars, counterVars, header,
                   sizeVars, imageVars, storage, restoreVars>>

\* App.completeConnection on input port toPort of the node: mouseup on the
\* port, or mousedown on it while a connection is being drawn.
completeConnection(node, toPort) ==
    /\ connectingFrom # NotConnecting
    /\ Includes(nodes, node)
    /\ toPort < inputs[node]
    /\ connectingFrom' = NotConnecting
    /\ IF connectingFrom = node
       THEN /\ lastOp' = NoOp
            /\ ForgetTick
            /\ UNCHANGED <<graphVars, editorVars, editVars, counterVars, header,
                           sizeVars, imageVars, storage, restoreVars>>
       ELSE createConnectionBody(connectingFrom, 0, node, toPort)

\* App.deleteConnectionAtPort: a right click on an input port.
deleteConnectionAtPort(node, port) ==
    /\ Includes(nodes, node)
    /\ port < inputs[node]
    /\ edges' = SeqFilterIdx(edges, {k \in 1 .. Len(edges) :
                    ~(edges[k].to = node /\ edges[k].toPort = port)}, 1)
    /\ header' = IF ntype[node] = Shader
                 THEN updateHeader(header, edges', name, {node}) ELSE header
    /\ lastOp' = NoOp
    /\ ForgetTick
    /\ UNCHANGED <<nodes, ntype, name, inputs, editorVars, editVars, counterVars,
                   sizeVars, imageVars, restoreVars, connectingFrom>>
    /\ saveState

\* Mutant of removeEdgesOf: only the edges that leave the node are removed.
removeEdgesFrom(es, node) ==
    SeqFilterIdx(es, {k \in 1 .. Len(es) : es[k].from # node}, 1)

\* The filter of Graph.removeNode: the edges that do not touch the node.
removeEdgesOf(es, node) ==
    SeqFilterIdx(es, {k \in 1 .. Len(es) : es[k].from # node /\ es[k].to # node}, 1)

\* Array.prototype.splice(index, 1) with the 0-based index of indexOf: the
\* element at the index leaves the array; the index -1 counts from the end.
splice(s, index) ==
    LET at == IF index < 0 THEN Len(s) + index + 1 ELSE index + 1 IN
    IF at < 1 \/ at > Len(s) THEN s
    ELSE SeqFilterIdx(s, (1 .. Len(s)) \ {at}, 1)

\* Array.prototype.indexOf, 0-based: -1 when the element is not in the array.
indexOf(s, x) ==
    IF Includes(s, x) THEN (CHOOSE k \in 1 .. Len(s) :
                                s[k] = x /\ \A j \in 1 .. k - 1 : s[j] # x) - 1
    ELSE -1

\* Mutant of removeNodeOf: no test of the index found.
removeNodeOfUnchecked(ns, es, node) ==
    [nodes |-> splice(ns, indexOf(ns, node)), edges |-> removeEdgesOf(es, node)]

\* Graph.removeNode on the node list ns and the edge list es: a node of the
\* list leaves it (and nodeMap) and its edges leave the edge list; for any
\* other node nothing is done.
removeNodeOf(ns, es, node) ==
    IF indexOf(ns, node) > -1
    THEN [nodes |-> splice(ns, indexOf(ns, node)), edges |-> removeEdgesOf(es, node)]
    ELSE [nodes |-> ns, edges |-> es]

\* Graph.removeEdge on the edge list es: an edge of the list leaves it; for
\* any other edge nothing is done.
removeEdgeOf(es, edge) ==
    IF indexOf(es, edge) > -1 THEN splice(es, indexOf(es, edge)) ELSE es

\* App.removeNode with Graph.removeNode: the node leaves the node list and the
\* edges that touch it leave the edge list; the headers of the shaders it was
\* connected to are shown again. Node.destroy removes the particle and the
\* element; nothing refers to the node object any more, so its fields are
\* dropped (the program object it linked and its texture stay in the GL
\* context), unless a connection is being drawn from it. A node that is not in App.nodes is left alone.
removeNode(node) ==
    IF ~Includes(nodes, node)
    THEN /\ lastOp' = Op("remove", 0, 0, node, 0, <<>>, 0)
         /\ UNCHANGED <<graphVars, editorVars, runtimeVars, counterVars, tick, header,
                        sizeVars, imageVars, storage, restoreVars, connectingFrom>>
    ELSE
    \* this.connectingFrom still refers to the node object: its fields stay
    LET referenced == connectingFrom = node IN
    /\ LET g == removeNodeOf(nodes, edges, node) IN
        /\ nodes' = g.nodes
        /\ edges' = g.edges
    /\ ntype' = IF referenced THEN ntype ELSE [ntype EXCEPT ![node] = NoNode]
    /\ name' = IF referenced THEN name ELSE [name EXCEPT ![node] = <<>>]
    /\ inputs' = IF referenced THEN inputs ELSE [inputs EXCEPT ![node] = 0]
    /\ code' = IF referenced THEN code ELSE [code EXCEPT ![node] = EmptyBody]
    /\ monaco' = IF referenced THEN monaco ELSE monaco \ {node}
    /\ lastCode' = IF referenced THEN lastCode ELSE [lastCode EXCEPT ![node] = Undefined]
    /\ program' = IF referenced THEN program ELSE [program EXCEPT ![node] = NullProgram]
    /\ errorText' = IF referenced THEN errorText ELSE [errorText EXCEPT ![node] = NoError]
    /\ compileAttempts' = IF referenced THEN compileAttempts ELSE [compileAttempts EXCEPT ![node] = 0]
    /\ LET connectedShaders ==
            {k \in NodeIds \ {node} :
                /\ ntype[k] = Shader
                /\ \E j \in 1 .. Len(edges) :
                    \/ edges[j].from = node /\ edges[j].to = k
                    \/ edges[j].to = node /\ edges[j].from = k}
       IN header' = updateHeader(IF referenced THEN header
                                 ELSE [header EXCEPT ![node] = <<>>], edges', name',
                                 connectedShaders)
    /\ lastOp' = Op("remove", 0, 0, node, 0, <<>>, Len(edges') - Len(edges))
    /\ texture' = IF referenced THEN texture ELSE [texture EXCEPT ![node] = NoTexture]
    /\ textureWidth' = IF referenced THEN textureWidth ELSE [textureWidth EXCEPT ![node] = null]
    /\ textureHeight' = IF referenced THEN textureHeight ELSE [textureHeight EXCEPT ![node] = null]
    /\ pendingCode' = IF referenced THEN pendingCode ELSE [pendingCode EXCEPT ![node] = NothingPending]
    /\ ForgetTick
    /\ UNCHANGED <<glPrograms, counterVars, glTextures, glFramebuffers, restoreTimer,
                   connectingFrom>>
    /\ saveState

\* Graph.removeNode called with a node, and Graph.removeEdge called with an
\* edge, by any caller.
Graph_removeNode(node) ==
    /\ LET g == removeNodeOf(nodes, edges, node) IN
        /\ nodes' = g.nodes
        /\ edges' = g.edges
    /\ lastOp' = Op("Graph.removeNode", 0, 0, node, 0, <<>>, Len(edges') - Len(edges))
    /\ UNCHANGED <<ntype, name, inputs, editorVars, runtimeVars, counterVars, tick,
                   header, sizeVars, imageVars, storage, restoreVars, connectingFrom>>

Graph_removeEdge(edge) ==
    /\ edges' = removeEdgeOf(edges, edge)
    /\ lastOp' = Op("Graph.removeEdge", edge.from, edge.fromPort, edge.to, edge.toPort,
                    <<>>, Len(edges') - Len(edges))
    /\ UNCHANGED <<nodes, ntype, name, inputs, editorVars, runtimeVars, counterVars,
                   tick, header, sizeVars, imageVars, storage, restoreVars, connectingFrom>>

\* TextureBufferNode.setName / ShaderNode.setName: the sanitized name is kept;
\* a texture buffer has the shaders it feeds show their headers again.
setName(node, raw) ==
    /\ name' = [name EXCEPT ![node] =
                    Sanitize(raw, IF ntype[node] = TextureBuffer
                                  THEN TextureFallbackName ELSE ShaderFallbackName)]
    /\ header' = IF ntype[node] = TextureBuffer
                 THEN updateHeader(header, edges, name',
                        {k \in NodeIds : ntype[k] = Shader /\
                            \E j \in 1 .. Len(edges) :
                                edges[j].from = node /\ edges[j].to = k})
                 ELSE header

\* The blur handler of a texture buffer's title: the trimmed title, or the
\* current name when nothing is left of it, is handed to setName. (A shader's
\* own name is read by no operation of the engine.)
renameTitle(node, raw) ==
    /\ Includes(nodes, node)
    /\ ntype[node] = TextureBuffer
    /\ setName(node, IF Trim(raw) = <<>> THEN name[node] ELSE Trim(raw))
    /\ lastOp' = Op("rename", 0, 0, node, 0, raw, 0)
    /\ ForgetTick
    /\ UNCHANGED <<nodes, edges, ntype, inputs, editorVars, editVars, counterVars,
                   sizeVars, imageVars, restoreVars, connectingFrom>>
    /\ saveState

\* App.evaluateGraph on a tick with the layout settled: one Graph.evaluate call,
\* run to its return.
evaluateGraph ==
    /\ LET s == RunEvaluate([t |-> StartTick, r |-> Runtime]) IN
        /\ tick' = s.t
        /\ SetRuntime(s.r)
    /\ lastOp' = NoOp
    /\ UNCHANGED <<graphVars, editorVars, counterVars, header, sizeVars, storage,
                   restoreVars, connectingFrom>>

Next ==
    \/ nodeIdCounter < MaxNodes /\ createTextureBuffer
    \/ nodeIdCounter < MaxNodes /\ createShaderNode
    \/ \E node \in NodeIds : initMonaco(node)
    \/ \E node \in NodeIds, body \in Bodies : setCode(node, body)
    \/ /\ Len(edges) < MaxEdges
       /\ \E fromNode, toNode \in NodeIds, toPort \in 0 .. MaxEdges :
            /\ createConnection(fromNode, 0, toNode, toPort)
            \* input slots are added up to one per edge the graph may hold
            /\ \A k \in NodeIds : inputs'[k] <= MaxEdges
    \/ \E node \in NodeIds, port \in 0 .. MaxEdges : deleteConnectionAtPort(node, port)
    \/ \E node \in Range(nodes) : removeNode(node)
    \/ \E node \in NodeIds, raw \in RawNames : renameTitle(node, raw)
    \/ evaluateGraph

Spec == Init /\ [][Next]_vars

\* ------------------------------------------------------------- SpecGraph

\* The editor operations that build and change the graph, from the empty graph.
NextGraph ==
    \/ nodeIdCounter < GraphNodes /\ createTextureBuffer
    \/ nodeIdCounter < GraphNodes /\ createShaderNode
    \/ /\ Len(edges) < GraphEdges
       /\ \E fromNode, toNode \in NodeIds, toPort \in 0 .. GraphEdges :
            /\ createConnection(fromNode, 0, toNode, toPort)
            \* input slots are added up to one per edge the graph may hold
            /\ \A k \in NodeIds : inputs'[k] <= GraphEdges
    \/ \E node \in NodeIds, port \in 0 .. GraphEdges : deleteConnectionAtPort(node, port)
    \/ \E node \in Range(nodes) : removeNode(node)
    \/ \E node \in NodeIds, raw \in RawNames : renameTitle(node, raw)

SpecGraph == Init /\ [][NextGraph]_vars

\* ------------------------------------------------------------ SpecBuffer

Min(a, b) == IF a <= b THEN a ELSE b
Max(a, b) == IF a >= b THEN a ELSE b

RECURSIVE leadingDigits(_)
\* The longest prefix of decimal digits.
leadingDigits(text) ==
    IF text # <<>> /\ Head(text) \in Digits
    THEN <<Head(text)>> \o leadingDigits(Tail(text)) ELSE <<>>

RECURSIVE digitsValue(_)
\* The number a non-empty sequence of decimal digits denotes.
digitsValue(ds) ==
    LET d == CHOOSE k \in 0 .. 9 : DigitChar(k) = ds[Len(ds)] IN
    IF Len(ds) = 1 THEN d ELSE 10 * digitsValue(Front(ds)) + d

\* parseInt(text): leading blanks are skipped, a sign is read, then the
\* longest run of digits; NaN when there is no digit.
parseInt(text) ==
    LET t == TrimStart(text)
        signed == t # <<>> /\ Head(t) \in {"-", "+"}
        ds == leadingDigits(IF signed THEN Tail(t) ELSE t)
    IN IF ds = <<>> THEN NaN
       ELSE Num(IF signed /\ Head(t) = "-" THEN 0 - digitsValue(ds) ELSE digitsValue(ds))

\* The answers given to the two prompts of promptResize (the empty text stands
\* for the cancelled prompt as well: null and '' are both falsy).
PromptTexts == {<<>>, <<"0">>, <<"3">>, <<"-", "3">>, <<"x">>}

\* TextureBufferNode.resize(width, height): the fields are set, the texture is
\* deleted and a new one created at the size asked for.
resize(node, width, height) ==
    /\ textureWidth' = [textureWidth EXCEPT ![node] = width]
    /\ textureHeight' = [textureHeight EXCEPT ![node] = height]
    /\ glTextures' = createTexture(deleteTexture(glTextures, texture[node]),
                                   width, height)
    /\ texture' = [texture EXCEPT ![node] = Len(glTextures) + 1]

\* TextureBufferNode.promptResize: the resize button, with the answers to the
\* two prompts.
promptResize(node, width, height) ==
    /\ Includes(nodes, node)
    /\ ntype[node] = TextureBuffer
    /\ IF width # <<>> /\ height # <<>>
       THEN /\ resize(node, parseInt(width), parseInt(height))
            /\ lastOp' = Op("resize", 0, 0, node, 0, <<width, height>>, 0)
       ELSE /\ lastOp' = Op("promptResize", 0, 0, node, 0, <<width, height>>, 0)
            /\ UNCHANGED <<sizeVars, texture, glTextures>>
    /\ ForgetTick
    /\ UNCHANGED <<graphVars, editorVars, editVars, counterVars, header,
                   glFramebuffers, storage, restoreVars, connectingFrom>>

\* const brushSize = 3
brushSize == 3

\* Math.floor(x * size) for the position x = k / ClickSteps.
floorScaled(k, size) == (k * size) \div ClickSteps

\* The rectangle draw() hands to texSubImage2D for a point edit at
\* (kx, ky) / ClickSteps on a width x height buffer, as the pixels
\* startX <= x < endX, startY <= y < endY; NaN makes every comparison false.
brushPixels(width, height, kx, ky) ==
    IF ~IsInteger(width) \/ ~IsInteger(height) THEN {}
    ELSE LET W == width.v
             H == height.v
             px == Max(0, Min(W - 1, floorScaled(kx, W)))
             py == Max(0, Min(H - 1, H - 1 - floorScaled(ky, H)))
             startX == Max(0, px - (brushSize \div 2))
             startY == Max(0, py - (brushSize \div 2))
             endX == Min(W, startX + brushSize)
             endY == Min(H, startY + brushSize)
         IN IF endX - startX > 0 /\ endY - startY > 0
            THEN (startX .. endX - 1) \X (startY .. endY - 1) ELSE {}

\* TextureBufferNode.draw(e): a mouse press or drag on the preview at
\* (kx, ky) / ClickSteps of its width and height.
draw(node, kx, ky) ==
    /\ Includes(nodes, node)
    /\ ntype[node] = TextureBuffer
    /\ glTextures' = [glTextures EXCEPT ![texture[node]].pixels =
                        @ \cup brushPixels(textureWidth[node], textureHeight[node],
                                          kx, ky)]
    /\ lastOp' = Op("draw", kx, ky, node, 0, <<>>, 0)
    /\ ForgetTick
    /\ UNCHANGED <<graphVars, editorVars, editVars, counterVars, header, sizeVars,
                   texture, glFramebuffers, storage, restoreVars, connectingFrom>>

\* new Uint8Array(width * height * 4) throws RangeError for a negative length
\* (NaN gives the length 0).
dataLengthThrows(width, height) ==
    IsInteger(width) /\ IsInteger(height) /\ width.v * height.v * 4 < 0

\* TextureBufferNode.clear(): the clear button. The image is replaced by a
\* zeroed one of the node's size and the state is saved; when the data array
\* cannot be made the handler ends with the exception.
clear(node) ==
    /\ Includes(nodes, node)
    /\ ntype[node] = TextureBuffer
    /\ lastOp' = Op("clear", 0, 0, node, 0, <<>>, 0)
    /\ ForgetTick
    /\ UNCHANGED <<graphVars, editorVars, editVars, counterVars, header, sizeVars,
                   texture, glFramebuffers, restoreVars, connectingFrom>>
    /\ IF dataLengthThrows(textureWidth[node], textureHeight[node])
       THEN UNCHANGED <<glTextures, storage>>
       ELSE /\ glTextures' =
                    IF texImage2D(textureWidth[node], textureHeight[node])
                    THEN [glTextures EXCEPT ![texture[node]].pixels = {},
                                            ![texture[node]].rendered = FALSE,
                                            ![texture[node]].allocated = TRUE]
                    ELSE glTextures
            /\ saveState

\* A texture buffer is created, resized, drawn on and cleared.
NextBuffer ==
    \/ nodeIdCounter < BufferNodes /\ createTextureBuffer
    \/ /\ Len(glTextures) < MaxTextures
       /\ \E node \in NodeIds, width, height \in PromptTexts :
            promptResize(node, width, height)
    \/ \E node \in NodeIds, kx, ky \in 0 .. ClickSteps :
            /\ Includes(nodes, node)
            /\ Cardinality(glTextures[texture[node]].pixels) < MaxWhite
            /\ draw(node, kx, ky)
    \/ \E node \in NodeIds : clear(node)

SpecBuffer == Init /\ [][NextBuffer]_vars

\* ------------------------------------------------------------ SpecRender

\* Nodes are created and connected, texture buffers resized, and the graph is
\* evaluated: the calls of renderToTexture.
NextRender ==
    \/ nodeIdCounter < RenderNodes /\ createTextureBuffer
    \/ nodeIdCounter < RenderNodes /\ createShaderNode
    \/ \E node \in NodeIds : initMonaco(node)
    \/ /\ Len(edges) < RenderEdges
       /\ \E fromNode, toNode \in NodeIds : createConnection(fromNode, 0, toNode, 0)
    \/ /\ Len(glTextures) < RenderTextures
       /\ \E node \in NodeIds, width, height \in PromptTexts :
            promptResize(node, width, height)
    \/ evaluateGraph

SpecRender == Init /\ [][NextRender]_vars

\* ----------------------------------------------------------- SpecRestore

\* The setInterval of setupAutoSave (and the debounced save after an edit of
\* a body): saveState on the state as it is.
autoSave ==
    /\ storage' = Snapshot
    /\ lastOp' = NoOp
    /\ UNCHANGED <<graphVars, editorVars, runtimeVars, counterVars, tick, header,
                   sizeVars, imageVars, restoreVars, connectingFrom>>

\* `value || fallback` on a saved dimension: 0, NaN and null give the fallback.
orDefault(d, fallback) == IF ~IsInteger(d) \/ d.v = 0 THEN Num(fallback) ELSE d

\* The entries of the saved node array that loadState restores: the loop ends
\* with the RangeError of new Uint8Array(width * height * 4) at the first
\* texture buffer for which that length is negative, which the catch of
\* loadState logs.
restoreThrowsAt(data, k) ==
    /\ data[k].type = TextureBuffer
    /\ dataLengthThrows(orDefault(data[k].textureWidth, DefaultTextureSize),
                        orDefault(data[k].textureHeight, DefaultTextureSize))

restoreAborted(data) == \E k \in 1 .. Len(data) : restoreThrowsAt(data, k)

restoredCount(data) ==
    IF restoreAborted(data)
    THEN (CHOOSE k \in 1 .. Len(data) :
            restoreThrowsAt(data, k) /\ \A j \in 1 .. k - 1 : ~restoreThrowsAt(data, j)) - 1
    ELSE Len(data)

RECURSIVE restoreTextures(_, _, _)
\* The textures the TextureBufferNode constructors create for the entries
\* k .. last of the saved node array, in order.
restoreTextures(data, k, last) ==
    IF k > last THEN <<>>
    ELSE IF data[k].type = TextureBuffer
    THEN createTexture(<<>>, orDefault(data[k].textureWidth, DefaultTextureSize),
                       orDefault(data[k].textureHeight, DefaultTextureSize))
         \o restoreTextures(data, k + 1, last)
    ELSE restoreTextures(data, k + 1, last)

\* App.loadState in the constructor of a new App (the page is loaded again):
\* counters, nodes and then edges are restored from localStorage, and the
\* timers that put the saved bodies into the editors, show the headers and
\* evaluate the graph once are started.
loadState ==
    LET data == storage.nodes
        count == restoredCount(data)
        aborted == restoreAborted(data)
        entry(n) == data[CHOOSE k \in 1 .. count : data[k].id = n]
        restored == {data[k].id : k \in 1 .. count}
        \* the texture buffers among the first k entries
        buffersUpTo(k) == Cardinality({j \in 1 .. k : data[j].type = TextureBuffer})
        position(n) == CHOOSE k \in 1 .. count : data[k].id = n
        restoredEdges == IF aborted THEN <<>>
                         ELSE SeqFilterIdx(storage.edges,
                                {k \in 1 .. Len(storage.edges) :
                                    /\ storage.edges[k].from \in restored
                                    /\ storage.edges[k].to \in restored}, 1)
    IN
    /\ nodes' = [k \in 1 .. count |-> data[k].id]
    /\ edges' = restoredEdges
    /\ ntype' = [n \in NodeIds |-> IF n \in restored THEN entry(n).type ELSE NoNode]
    /\ name' = [n \in NodeIds |->
                    IF n \notin restored THEN <<>>
                    ELSE IF entry(n).name # <<>> THEN entry(n).name
                    ELSE IF entry(n).type = TextureBuffer THEN TextureName(0)
                    ELSE ShaderName(0)]
    /\ inputs' = [n \in NodeIds |->
                    IF n \notin restored THEN 0
                    ELSE IF entry(n).type = TextureBuffer THEN 1
                    ELSE MaxOf({entry(n).inputs} \cup
                               {restoredEdges[k].toPort + 1 :
                                    k \in {j \in 1 .. Len(restoredEdges) :
                                                restoredEdges[j].to = n}})]
    /\ code' = [n \in NodeIds |-> IF n \in restored THEN entry(n).code ELSE EmptyBody]
    /\ monaco' = {}
    /\ pendingCode' = [n \in NodeIds |->
                        IF n \in restored /\ entry(n).type = Shader
                        THEN entry(n).code ELSE NothingPending]
    /\ textureWidth' = [n \in NodeIds |->
                            IF n \in restored /\ entry(n).type = TextureBuffer
                            THEN orDefault(entry(n).textureWidth, DefaultTextureSize)
                            ELSE null]
    /\ textureHeight' = [n \in NodeIds |->
                            IF n \in restored /\ entry(n).type = TextureBuffer
                            THEN orDefault(entry(n).textureHeight, DefaultTextureSize)
                            ELSE null]
    /\ texture' = [n \in NodeIds |->
                        IF n \in restored /\ entry(n).type = TextureBuffer
                        THEN buffersUpTo(position(n)) ELSE NoTexture]
    /\ glTextures' = restoreTextures(data, 1, IF aborted THEN count + 1 ELSE count)
    /\ glFramebuffers' = <<>>
    /\ nodeIdCounter' = storage.counters.nodeId
    /\ textureBufferCounter' = storage.counters.textureBuffer
    /\ shaderCounter' = storage.counters.shader
    /\ lastCode' = [n \in NodeIds |-> Undefined]
    /\ program' = [n \in NodeIds |-> NullProgram]
    /\ errorText' = [n \in NodeIds |-> NoError]
    /\ glPrograms' = <<>>
    /\ compileAttempts' = [n \in NodeIds |-> 0]
    /\ header' = [n \in NodeIds |-> <<>>]
    /\ restoreTimer' = IF storage.saved /\ ~aborted THEN "headers" ELSE "none"
    /\ lastOp' = Op("load", 0, 0, 0, 0, <<>>, 0)
    /\ connectingFrom' = NotConnecting
    /\ ForgetTick
    /\ UNCHANGED storage

\* The timer loadState starts for a restored shader with a saved body, once
\* the node's editor exists: setValue puts the body into the editor, whose
\* change handler takes it as the node's code, and the header is shown.
restoreCode(node) ==
    /\ pendingCode[node] # NothingPending
    /\ node \in monaco
    /\ LET codeNow == [code EXCEPT ![node] = pendingCode[node]] IN
        /\ WithinProgramBound(codeNow)
        /\ code' = codeNow
    /\ errorText' = clearError(errorText, node)
    /\ compileAttempts' = [compileAttempts EXCEPT ![node] = 0]
    /\ header' = updateHeader(header, edges, name, {node})
    /\ pendingCode' = [pendingCode EXCEPT ![node] = NothingPending]
    /\ ForgetTick
    /\ lastOp' = NoOp
    /\ UNCHANGED <<graphVars, counterVars, monaco, lastCode, program, glPrograms,
                   sizeVars, imageVars, storage, restoreTimer, connectingFrom>>

\* The same timer when the editor has not appeared within its five seconds:
\* the polling is cleared and the saved body is never put into the editor.
abandonRestoreCode(node) ==
    /\ pendingCode[node] # NothingPending
    /\ node \notin monaco
    /\ pendingCode' = [pendingCode EXCEPT ![node] = NothingPending]
    /\ lastOp' = NoOp
    /\ UNCHANGED <<graphVars, editorVars, runtimeVars, counterVars, tick, header,
                   sizeVars, imageVars, storage, restoreTimer, connectingFrom>>

\* The first delayed callback of loadState: every shader shows its header.
restoreHeaders ==
    /\ restoreTimer = "headers"
    /\ header' = updateHeader(header, edges, name,
                              {n \in Range(nodes) : ntype[n] = Shader})
    /\ restoreTimer' = "evaluate"
    /\ lastOp' = NoOp
    /\ UNCHANGED <<graphVars, editorVars, runtimeVars, counterVars, tick,
                   sizeVars, imageVars, storage, pendingCode,
                   connectingFrom>>

\* The second delayed callback of loadState: Graph.evaluate, once.
restoreEvaluate ==
    /\ restoreTimer = "evaluate"
    /\ LET s == RunEvaluate([t |-> StartTick, r |-> Runtime]) IN
        /\ tick' = s.t
        /\ SetRuntime(s.r)
    /\ restoreTimer' = "none"
    /\ lastOp' = NoOp
    /\ UNCHANGED <<graphVars, editorVars, counterVars, header, sizeVars, storage,
                   pendingCode, connectingFrom>>

\* Nodes are created, connected, edited (the body is deleted, or replaced by
\* the sampling body) and resized (to the height 3); the state is saved and the
\* page loaded again.
NextRestore ==
    \/ nodeIdCounter < RestoreNodes /\ createTextureBuffer
    \/ nodeIdCounter < RestoreNodes /\ createShaderNode
    \/ \E node \in NodeIds : initMonaco(node)
    \/ \E node \in NodeIds, body \in {EmptyBody, SampleBody} : setCode(node, body)
    \/ /\ Len(edges) < RestoreEdges
       /\ \E fromNode, toNode \in NodeIds : createConnection(fromNode, 0, toNode, 0)
    \/ /\ Len(glTextures) < RestoreTextures
       /\ \E node \in NodeIds, width \in PromptTexts :
            promptResize(node, width, <<"3">>)
    \/ autoSave
    \/ loadState
    \/ \E node \in NodeIds : restoreCode(node)
    \/ \E node \in NodeIds : abandonRestoreCode(node)
    \/ restoreHeaders
    \/ restoreEvaluate

SpecRestore == Init /\ [][NextRestore]_vars

\* ------------------------------------------------------------ SpecRemove

\* Nodes are created, connected and removed, and Graph.removeNode and
\* Graph.removeEdge are called with nodes and edges the graph does not hold.
NextRemove ==
    \/ nodeIdCounter < RemoveNodes /\ createTextureBuffer
    \/ nodeIdCounter < RemoveNodes /\ createShaderNode
    \/ /\ Len(edges) < RemoveEdges
       /\ \E fromNode, toNode \in NodeIds : createConnection(fromNode, 0, toNode, 0)
    \/ \E node \in NodeIds : removeNode(node)
    \/ \E node \in NodeIds \ Range(nodes) : Graph_removeNode(node)
    \/ \E edge \in EdgeValues : Graph_removeEdge(edge)

SpecRemove == Init /\ [][NextRemove]_vars

\* ----------------------------------------------------------- SpecConnect

\* Nodes are created and removed while connections are begun on output ports,
\* cancelled, and completed on input ports.
NextConnect ==
    \/ nodeIdCounter < ConnectNodes /\ createTextureBuffer
    \/ nodeIdCounter < ConnectNodes /\ createShaderNode
    \/ \E node \in NodeIds : startConnection(node)
    \/ cancelConnection
    \/ /\ Len(edges) < ConnectEdges
       /\ \E node \in NodeIds, toPort \in 0 .. ConnectEdges :
            /\ completeConnection(node, toPort)
            /\ \A k \in NodeIds : inputs'[k] <= ConnectEdges
    \/ \E node \in Range(nodes) : removeNode(node)

SpecConnect == Init /\ [][NextConnect]_vars

\* -------------------------------------------------------------- SpecName

\* The characters typed into a title, and the titles typed.
TitleChars == {"A", "3", " ", "%", "_"}
Titles == SeqsUpTo(TitleChars, MaxNameLen)

\* Texture buffers are created and their titles edited.
NextName ==
    \/ nodeIdCounter < NameNodes /\ createTextureBuffer
    \/ \E node \in NodeIds, raw \in Titles : renameTitle(node, raw)
    \/ loadState
    \/ restoreHeaders
    \/ restoreEvaluate

SpecName == Init /\ [][NextName]_vars

\* ------------------------------------------------- vocabulary of the claims

\* The node pairs joined by an edge, and their transitive closure.
EdgePairs == {<<edges[k].from, edges[k].to>> : k \in 1 .. Len(edges)}

RECURSIVE Closure(_)
Closure(R) ==
    LET R2 == R \cup {pq \in (Range(nodes) \X Range(nodes)) :
                        \E m \in Range(nodes) : <<pq[1], m>> \in R /\ <<m, pq[2]>> \in R} IN
    IF R2 = R THEN R ELSE Closure(R2)

\* Reach: the pairs <<a, b>> with a directed path of at least one edge from a to b.
Reach == Closure(EdgePairs)

\* Node n lies on a directed cycle of the reachability relation R.
OnCycle(R, n) == <<n, n>> \in R

\* No node of the graph lies on a directed cycle.
Acyclic == LET R == Reach IN \A n \in Range(nodes) : <<n, n>> \notin R

\* The position of node n in sequence s (0 when absent).
IndexOf(s, n) == IF Includes(s, n) THEN CHOOSE k \in 1 .. Len(s) : s[k] = n ELSE 0

\* s holds every node of the graph exactly once.
IsPermutationOfNodes(s) == Len(s) = Len(nodes) /\ Range(s) = Range(nodes)

\* How often node n was dispatched in the given pass of the evaluate call.
DispatchCount(n, pass) ==
    Cardinality({k \in 1 .. Len(tick.log) : tick.log[k] = [node |-> n, pass |-> pass]})

Done == tick.pc = "done"

\* ------------------------------------------------------------------ claims

\* C1: for every acyclic graph, the order returned by getEvaluationOrder is a
\* permutation of the graph's nodes in which every edge's source precedes its
\* destination.
C1_AcyclicOrderIsTopological ==
    (Done /\ Acyclic) =>
        /\ IsPermutationOfNodes(tick.order)
        /\ \A k \in 1 .. Len(edges) :
            IndexOf(tick.order, edges[k].from) < IndexOf(tick.order, edges[k].to)

\* An acyclic graph of three edges whose order differs from the node list.
C1_Witness ==
    Done /\ Acyclic /\ Len(edges) = 3 /\ Cardinality(EdgePairs) = 3
         /\ tick.order # nodes

\* C2: in any graph, every transitive upstream dependency of a node that has no
\* path back to itself precedes that node in the order, also a dependency that
\* lies on a cycle.
C2_DependenciesPrecedeAcyclicNode ==
    Done =>
        LET R == Reach IN
        \A n \in Range(nodes) : \A m \in Range(nodes) :
            (~OnCycle(R, n) /\ <<m, n>> \in R) =>
                /\ IndexOf(tick.order, m) > 0
                /\ IndexOf(tick.order, m) < IndexOf(tick.order, n)

\* A node off every cycle that depends on a cycle member.
C2_Witness ==
    Done /\ LET R == Reach IN
            \E n \in Range(nodes), m \in Range(nodes) :
                ~OnCycle(R, n) /\ OnCycle(R, m) /\ <<m, n>> \in R

\* C3: getEvaluationOrder and evaluate terminate on every finite graph: visit is
\* entered at most once per node and once per edge, findCycleNodes at most
\* 1 + 2|E| times per cycle entry, the recursion stacks never hold a node twice,
\* and the whole call takes a bounded number of steps.
C3_EvaluateTerminates ==
    LET V == Len(nodes)
        E == Len(edges)
        C == Len(tick.cycles)
    IN /\ tick.visitCalls <= V + E
       /\ C <= E
       /\ tick.findCalls <= C * (1 + 2 * E)
       /\ Len(tick.stack) <= V
       /\ Len(tick.fcStack) <= V
       /\ tick.steps <= (2 * V + E + 1) + (V + 1) + (C * (1 + 2 * E + V) + 1) + (V + 1)
       /\ (tick.pc \notin {"idle", "done"} =>
            EvaluateStep([t |-> tick, r |-> Runtime]).t # tick)

\* An evaluate call that finished on a graph with a cycle through two nodes, one
\* of its edges doubled (parallel edges), so that two cycle entries are expanded.
C3_Witness ==
    Done /\ (\E j, k \in 1 .. Len(edges) :
                j # k /\ edges[j] = edges[k] /\ edges[j].from # edges[j].to
                /\ <<edges[j].to, edges[j].from>> \in EdgePairs)
         /\ Len(tick.cycles) >= 2 /\ tick.findCalls > 2

\* C4: a node on a directed cycle (a self-loop included) is dispatched at least
\* twice in one evaluate call: in the ordered pass and in the cycle pass.
C4_CycleNodesEvaluatedTwice ==
    Done =>
        LET R == Reach IN
        \A n \in Range(nodes) :
            OnCycle(R, n) => DispatchCount(n, 1) >= 1 /\ DispatchCount(n, 2) >= 1

\* A finished call on a cycle through three nodes.
C4_Witness ==
    Done /\ Len(nodes) = 3 /\ Cardinality(EdgePairs) = 3
         /\ (\A k \in 1 .. Len(edges) : edges[k].from # edges[k].to)
         /\ LET R == Reach IN \A n \in Range(nodes) : OnCycle(R, n)

\* C5: one evaluate call dispatches every buffer node and every program node of
\* the graph at least once, whatever the edge structure.
C5_EveryNodeEvaluated ==
    Done =>
        \A n \in Range(nodes) : DispatchCount(n, 1) + DispatchCount(n, 2) >= 1

\* A finished call on a graph of three nodes in which every node lies on a
\* cycle (no acyclic root), each node dispatched in both passes.
C5_Witness ==
    Done /\ Len(nodes) = 3 /\ Len(tick.log) >= 6
         /\ LET R == Reach IN \A n \in Range(nodes) : OnCycle(R, n)

\* C6 (as claimed): a node evaluated in the cycle pass lies on a directed cycle.
C6_CyclePassOnlyCycleMembers ==
    Done =>
        LET R == Reach IN
        \A n \in Range(nodes) : DispatchCount(n, 2) >= 1 => OnCycle(R, n)

\* C7: for an acyclic graph getEvaluationOrder reports no cycle entry and
\* evaluate dispatches every node exactly once.
C7_AcyclicEvaluatedOnce ==
    (Done /\ Acyclic) =>
        /\ tick.cycles = <<>>
        /\ \A n \in Range(nodes) : DispatchCount(n, 1) = 1 /\ DispatchCount(n, 2) = 0

\* A finished call on an acyclic graph in which one node is reached along two
\* paths.
C7_Witness ==
    Done /\ Acyclic /\ Len(nodes) = 3
         /\ \E a, b, c \in Range(nodes) :
                {<<a, b>>, <<b, c>>, <<a, c>>} \subseteq EdgePairs

\* C8 (as claimed): an evaluate() call that finds the node's program linked from
\* another source than the one now assembled calls createProgram before it
\* draws, also when only the header differs.
C8_StaleProgramRecompiled ==
    \A n \in NodeIds :
        (lastEval[n].entered /\ lastEval[n].stale) => lastEval[n].compile # "none"

\* C9: an evaluate() call on a node that holds a program linked from the source
\* now assembled makes no createProgram call and leaves the program handle as
\* it was.
C9_UnchangedSourceKeepsProgram ==
    \A n \in NodeIds :
        (lastEval[n].entered /\ lastEval[n].programBefore # NullProgram
            /\ ~lastEval[n].stale) =>
                /\ lastEval[n].compile = "none"
                /\ lastEval[n].programAfter = lastEval[n].programBefore
                /\ program[n] = lastEval[n].programBefore

\* A Graph.evaluate call in which a shader with an inbound edge, already holding
\* a program of its current source, was evaluated and drew.
C9_Witness ==
    Done /\ \E n \in NodeIds :
                /\ lastEval[n].entered /\ lastEval[n].drew /\ ~lastEval[n].stale
                /\ lastEval[n].programBefore # NullProgram
                /\ Len(getEdgesTo(n)) > 0

\* C10 (as claimed): between two changes of a node's body text at most one
\* createProgram call is made for the node, whether it succeeds or fails.
C10_OneCompilePerEdit ==
    \A n \in NodeIds : compileAttempts[n] <= 1

\* C11 (as claimed): when createProgram fails in an evaluate() call of a node
\* that held a program, that program is not deleted, the node still refers to
\* it, and the call does not draw.
C11_FailedCompileKeepsProgram ==
    \A n \in NodeIds :
        (lastEval[n].compile = "failed" /\ lastEval[n].programBefore # NullProgram) =>
            /\ ~glPrograms[lastEval[n].programBefore].deleted
            /\ program[n] = lastEval[n].programBefore
            /\ ~lastEval[n].drew

\* C12: a Graph.evaluate call in which a shader fails to compile returns without
\* an exception; the failing node shows the compile error and does not draw,
\* every node of the graph is dispatched in the ordered pass and every collected
\* cycle node in the cycle pass.
C12_CompileErrorIsLocal ==
    /\ tick.pc # "thrown"
    /\ Done =>
        \A n \in Range(nodes) :
            lastEval[n].compile = "failed" =>
                /\ lastEval[n].thrown = NoException
                /\ errorText[n] = CompileErrorText
                /\ ~lastEval[n].drew
                /\ \A m \in Range(nodes) : DispatchCount(m, 1) = 1
                /\ \A k \in 1 .. Len(tick.cycleNodes) :
                        DispatchCount(tick.cycleNodes[k], 2) = 1

\* A finished call on a cycle of two shaders: the first of the order fails to
\* compile, the second compiles and draws, and both are evaluated again in the
\* cycle pass.
C12_Witness ==
    Done /\ \E n, m \in Range(nodes) :
                /\ n # m
                /\ lastEval[n].compile = "failed"
                /\ lastEval[m].entered /\ lastEval[m].drew
                /\ IndexOf(tick.order, n) < IndexOf(tick.order, m)
                /\ Len(tick.cycleNodes) = 2
                /\ DispatchCount(n, 2) = 1 /\ DispatchCount(m, 2) = 1

\* C13: a step that takes a node out of the node list leaves the other nodes in
\* their order, drops the node's entry, removes exactly the edges whose source
\* or destination is that node and leaves the other edges in their order.
C13_RemoveNodeFrame ==
    [][\A n \in NodeIds :
        (Includes(nodes, n) /\ ~Includes(nodes', n)) =>
            /\ \E i \in 1 .. Len(nodes) :
                    /\ nodes[i] = n
                    /\ nodes' = SubSeq(nodes, 1, i - 1) \o SubSeq(nodes, i + 1, Len(nodes))
            /\ ntype'[n] = NoNode
            /\ edges' = SeqFilterIdx(edges, {k \in 1 .. Len(edges) :
                                        edges[k].from # n /\ edges[k].to # n}, 1)
            /\ \A m \in NodeIds \ {n} :
                    ntype'[m] = ntype[m] /\ name'[m] = name[m] /\ inputs'[m] = inputs[m]
      ]_vars

\* The second of three nodes was removed and took edges with it; the first and
\* the third node and an edge between them remain.
C13_Witness ==
    /\ lastOp.op = "remove" /\ lastOp.to = 1 /\ lastOp.delta < 0
    /\ nodes = <<0, 2>>
    /\ Len(edges) >= 1

\* C14 (as claimed): the program a removed shader node had linked is deleted, so
\* every program of the GL context that is not deleted belongs to a node of the
\* graph.
C14_RemovedNodeReleasesProgram ==
    \A h \in 1 .. Len(glPrograms) :
        ~glPrograms[h].deleted => \E n \in Range(nodes) : program[n] = h

\* The edge a connection request asks for.
RequestedEdge(op) ==
    [from |-> op.from, fromPort |-> op.fromPort, to |-> op.to, toPort |-> op.toPort]

\* The destination ports of node n that an edge of es occupies.
UsedPorts(es, n) == {es[k].toPort : k \in {j \in 1 .. Len(es) : es[j].to = n}}

\* C15: a connection requested to an occupied input port of a shader node is
\* appended on the lowest unused port at or above the requested one; the edges
\* already there stay as they are and the node has an input slot for the port.
C15_OccupiedPortAdvances ==
    [][(/\ lastOp'.op = "connect" /\ lastOp'.delta = 1
        /\ ntype[lastOp'.to] = Shader
        /\ lastOp'.toPort \in UsedPorts(edges, lastOp'.to)) =>
            /\ Len(edges') = Len(edges) + 1
            /\ SubSeq(edges', 1, Len(edges)) = edges
            /\ LET e == edges'[Len(edges')]
                   used == UsedPorts(edges, lastOp'.to)
               IN /\ e.from = lastOp'.from /\ e.fromPort = lastOp'.fromPort
                  /\ e.to = lastOp'.to
                  /\ e.toPort >= lastOp'.toPort
                  /\ e.toPort \notin used
                  /\ \A q \in lastOp'.toPort .. (e.toPort - 1) : q \in used
                  /\ inputs'[e.to] > e.toPort
                  /\ inputs'[e.to] >= inputs[e.to]
      ]_vars

\* A connection requested to port 0 of a shader whose ports 0 and 2 are in use
\* was placed on port 1.
C15_Witness ==
    /\ lastOp.op = "connect" /\ lastOp.delta = 1 /\ lastOp.toPort = 0
    /\ ntype[lastOp.to] = Shader
    /\ edges # <<>> /\ Last(edges).to = lastOp.to /\ Last(edges).toPort = 1
    /\ {0, 2} \subseteq UsedPorts(Front(edges), lastOp.to)

\* C16 (as claimed): no two edges of the graph have the same destination node
\* and destination port, whatever the type of the destination.
C16_OneEdgePerDestinationPort ==
    \A j, k \in 1 .. Len(edges) :
        (edges[j].to = edges[k].to /\ edges[j].toPort = edges[k].toPort) => j = k

\* C17: a connection request for an edge that is in the edge list leaves the
\* edge list as it is, and no step leads to an edge list that holds the same
\* (source, source port, destination, destination port) twice.
C17_DuplicateConnectionIgnored ==
    [][/\ \A j, k \in 1 .. Len(edges') : edges'[j] = edges'[k] => j = k
       /\ (lastOp'.op = "connect" /\ Includes(edges, RequestedEdge(lastOp'))) =>
                edges' = edges
      ]_vars

\* A connection that two edges' worth of graph already held was requested again
\* and ignored.
C17_Witness ==
    /\ lastOp.op = "connect" /\ lastOp.delta = 0
    /\ Len(edges) >= 2
    /\ Includes(edges, RequestedEdge(lastOp))

\* The declarations the header of shader n is to hold: for each connected
\* destination port, in ascending order, the name of the buffer at the source of
\* its edge, or input<port> when the source is a shader.
ExpectedDeclarations(n) ==
    LET P == UsedPorts(edges, n)
        portAt(k) == CHOOSE p \in P : Cardinality({q \in P : q < p}) = k - 1
        sourceAt(p) == edges[CHOOSE j \in 1 .. Len(edges) :
                                edges[j].to = n /\ edges[j].toPort = p].from
    IN [k \in 1 .. Cardinality(P) |->
            IF ntype[sourceAt(portAt(k))] = TextureBuffer
            THEN name[sourceAt(portAt(k))] ELSE InputName(portAt(k))]

\* C18: the header of every shader node, as shown by updateHeader and as
\* assembled by getFullShaderCode, declares one uniform per connected
\* destination port and none for an unconnected one, in ascending port order,
\* named after the source buffer or input<port>.
C18_HeaderDeclaresConnectedPorts ==
    \A n \in Range(nodes) :
        ntype[n] = Shader =>
            /\ getFullShaderCode(n).declarations = ExpectedDeclarations(n)
            /\ header[n] = ExpectedDeclarations(n)

\* A shader with edges on ports 0 and 2 and none on port 1, fed by a renamed
\* buffer on port 0 and by a shader on port 2: two declarations.
C18_Witness ==
    \E n \in Range(nodes) :
        /\ ntype[n] = Shader
        /\ UsedPorts(edges, n) = {0, 2}
        /\ inputs[n] = 3
        /\ header[n] = <<<<"A", "_", "B">>, InputName(2)>>

\* C19: the source assembled for a shader node does not depend on the order in
\* which the edges were inserted: every reordering of the edge list gives the
\* text that getFullShaderCode returns.
C19_SourceIgnoresInsertionOrder ==
    \A n \in Range(nodes) :
        ntype[n] = Shader =>
            \A p \in Permutations(1 .. Len(edges)) :
                fullShaderCode([i \in 1 .. Len(edges) |-> edges[p[i]]],
                               name, code[n], n) = getFullShaderCode(n)

\* A shader whose inbound edges were inserted against the order of their ports,
\* from sources with different declared names.
C19_Witness ==
    \E n \in Range(nodes) :
        /\ ntype[n] = Shader
        /\ \E j, k \in 1 .. Len(edges) :
                /\ j < k
                /\ edges[j].to = n /\ edges[k].to = n
                /\ edges[j].toPort > edges[k].toPort
        /\ Len(header[n]) >= 2 /\ header[n][1] # header[n][2]

\* The name the renaming rule gives a title: the fallback name when the title has
\* no letter and no digit, and otherwise the title with every character that is
\* no letter, digit or underscore replaced by an underscore, behind an
\* underscore when it starts with a digit.
RuleName(title) ==
    IF \A k \in 1 .. Len(title) : title[k] \notin Letters \cup Digits
    THEN TextureFallbackName
    ELSE LET replaced == [k \in 1 .. Len(title) |->
                            IF title[k] \in Letters \cup Digits \cup {"_"}
                            THEN title[k] ELSE "_"]
         IN IF replaced[1] \in Digits THEN <<"_">> \o replaced ELSE replaced

\* C20 (as claimed): a texture buffer renamed to a title (not blank) carries the
\* name the renaming rule gives that title; a title without any identifier
\* character gives the fallback name.
C20_RenameFollowsRule ==
    (lastOp.op = "rename" /\ Trim(lastOp.raw) # <<>>) =>
        name[lastOp.to] = RuleName(Trim(lastOp.raw))

\* A GLSL identifier: not empty, letters, digits and `_` only, no leading digit.
ValidIdentifier(nm) ==
    /\ nm # <<>>
    /\ \A k \in 1 .. Len(nm) : nm[k] \in Letters \cup Digits \cup {"_"}
    /\ nm[1] \notin Digits

\* C21: whatever texture buffers were created, renamed and restored, the name
\* of every texture buffer is a valid identifier, and setName called with that
\* name leaves it as it is.
C21_BufferNamesAreIdentifiers ==
    \A n \in Range(nodes) :
        ntype[n] = TextureBuffer =>
            /\ ValidIdentifier(name[n])
            /\ Sanitize(name[n], TextureFallbackName) = name[n]

\* The title "3%" was typed: the name is _3_.
C21_Witness ==
    /\ lastOp.op = "rename"
    /\ lastOp.raw = <<"3", "%">>
    /\ name[lastOp.to] = <<"_", "3", "_">>

\* C22: a resize(w, h) of a texture buffer leaves the node with a texture object
\* created by the call, recorded with the dimensions (w, h); the node's width
\* and height are w and h, the texture it held before is deleted, and the new
\* image holds nothing of what was drawn or rendered before.
C22_ResizeReplacesImage ==
    [][lastOp'.op = "resize" =>
        LET n == lastOp'.to
            w == parseInt(lastOp'.raw[1])
            h == parseInt(lastOp'.raw[2])
        IN /\ texture'[n] \notin 1 .. Len(glTextures)
           /\ texture'[n] \in 1 .. Len(glTextures')
           /\ glTextures'[texture'[n]].width = w
           /\ glTextures'[texture'[n]].height = h
           /\ ~glTextures'[texture'[n]].deleted
           /\ (IsInteger(w) /\ w.v > 0 /\ IsInteger(h) /\ h.v > 0) =>
                    HasPixels(glTextures'[texture'[n]])
           /\ textureWidth'[n] = w
           /\ textureHeight'[n] = h
           /\ glTextures'[texture[n]].deleted
           /\ glTextures'[texture'[n]].pixels = {}
           /\ ~glTextures'[texture'[n]].rendered]_vars

\* The 512 x 512 buffer was resized to 3 x 3: its first texture is deleted and
\* it holds a second one.
C22_Witness ==
    /\ lastOp.op = "resize"
    /\ lastOp.raw = <<<<"3">>, <<"3">>>>
    /\ Len(glTextures) = 2
    /\ glTextures[1].deleted
    /\ texture[lastOp.to] = 2
    /\ glTextures[2].width = Num(3)

\* C23: loading the page again gives the nodes that were saved (identifier,
\* kind, name, buffer dimensions, body and input ports) and the edge tuples
\* that were saved, in order.
C23_RestoreYieldsSavedGraph ==
    [][(lastOp'.op = "load" /\ storage.saved) =>
        /\ Snapshot'.nodes = storage.nodes
        /\ Snapshot'.edges = storage.edges]_vars

\* C24: after every step that creates a connection, deletes connections,
\* removes a node or renames a texture buffer, the header of every shader node
\* shows the declarations generated from the edges that now enter it and the
\* names its source buffers now have.
C24_HeadersRegenerated ==
    [][(lastOp'.op \in {"connect", "remove", "rename"} \/ Len(edges') < Len(edges)) =>
        \A n \in Range(nodes') :
            ntype'[n] = Shader =>
                header'[n] = inputDeclarations(edges', name', n)]_vars

\* A texture buffer that feeds a shader was renamed "A B": the shader's header
\* declares A_B.
C24_Witness ==
    /\ lastOp.op = "rename"
    /\ \E n \in Range(nodes) :
        /\ ntype[n] = Shader
        /\ \E k \in 1 .. Len(edges) : edges[k].from = lastOp.to /\ edges[k].to = n
        /\ Includes(header[n], <<"A", "_", "B">>)

C26_RemovingAbsentIsNoOp ==
    [][(\/ /\ lastOp'.op \in {"remove", "Graph.removeNode"}
           /\ ~Includes(nodes, lastOp'.to)
        \/ /\ lastOp'.op = "Graph.removeEdge"
           /\ ~Includes(edges, RequestedEdge(lastOp'))) =>
        UNCHANGED <<nodes, edges, ntype>>]_vars

\* Graph.removeNode was called with a node that is not in a graph of at least
\* one node and one edge.
C26_Witness ==
    /\ lastOp.op = "Graph.removeNode"
    /\ ~Includes(nodes, lastOp.to)
    /\ Len(nodes) > 0
    /\ Len(edges) > 0

\* C27: over the calls of renderToTexture, no two framebuffer objects are
\* created for the same texture; the framebuffer a texture has got stays its
\* framebuffer, and a texture that was rendered to has one.
C27_OneFramebufferPerImage ==
    [][/\ \A j, k \in 1 .. Len(glFramebuffers') :
            glFramebuffers'[j] = glFramebuffers'[k] => j = k
       /\ \A t \in 1 .. Len(glTextures) :
            glTextures[t].framebuffer # NoFramebuffer =>
                glTextures'[t].framebuffer = glTextures[t].framebuffer
       /\ \A t \in 1 .. Len(glTextures') :
            /\ glTextures'[t].rendered => glTextures'[t].framebuffer # NoFramebuffer
            /\ glTextures'[t].framebuffer # NoFramebuffer =>
                    glFramebuffers'[glTextures'[t].framebuffer] = t]_vars

\* A shader drew with the program it held, so not for the first time, and one
\* framebuffer has been created.
C27_Witness ==
    /\ Len(glFramebuffers) = 1
    /\ \E n \in Range(nodes) :
        /\ ntype[n] = Shader
        /\ lastEval[n].drew
        /\ lastEval[n].compile = "none"

\* The pixels of a W x H image within the 3 x 3 block centred on the pixel
\* that the position (kx, ky) / ClickSteps maps to, clamped into the image.
CentredBlock(W, H, kx, ky) ==
    LET px == Max(0, Min(W - 1, floorScaled(kx, W)))
        py == Max(0, Min(H - 1, H - 1 - floorScaled(ky, H)))
    IN {p \in ((px - 1) .. (px + 1)) \X ((py - 1) .. (py + 1)) :
            p[1] \in 0 .. W - 1 /\ p[2] \in 0 .. H - 1}

\* C28: a point edit on a buffer of positive width W and height H writes white
\* to exactly the pixels of the image that lie in the 3 x 3 block centred on
\* the mapped pixel: at an edge the block is cut, not shifted inward.
C28_BrushIsCentredBlock ==
    [][(/\ lastOp'.op = "draw"
        /\ IsInteger(textureWidth[lastOp'.to]) /\ textureWidth[lastOp'.to].v > 0
        /\ IsInteger(textureHeight[lastOp'.to]) /\ textureHeight[lastOp'.to].v > 0) =>
        LET n == lastOp'.to
            block == CentredBlock(textureWidth[n].v, textureHeight[n].v,
                                  lastOp'.from, lastOp'.fromPort)
        IN /\ block # {}
           /\ glTextures'[texture[n]].pixels = glTextures[texture[n]].pixels \cup block]_vars

\* C29: every buffer node's width and height are positive integers, whatever
\* was answered to the resize prompts: a zero, negative or non-numeric
\* dimension asked for never becomes the node's dimension.
C29_DimensionsPositiveIntegers ==
    \A n \in Range(nodes) :
        ntype[n] = TextureBuffer =>
            /\ IsInteger(textureWidth[n]) /\ textureWidth[n].v > 0
            /\ IsInteger(textureHeight[n]) /\ textureHeight[n].v > 0

\* C30: a resize whose image allocation fails leaves the node with its previous
\* image, not destroyed, and with its previous width and height.
C30_FailedResizeKeepsImage ==
    [][(/\ lastOp'.op = "resize"
        /\ ~glTextures'[Len(glTextures')].allocated) =>
        /\ texture'[lastOp'.to] = texture[lastOp'.to]
        /\ ~glTextures'[texture[lastOp'.to]].deleted
        /\ textureWidth'[lastOp'.to] = textureWidth[lastOp'.to]
        /\ textureHeight'[lastOp'.to] = textureHeight[lastOp'.to]]_vars

\* C31: in the cycle pass of one evaluate call every member of a cycle
\* component is dispatched exactly once more, also when several cycle entries
\* lead to the same component; no node is dispatched more than twice in one
\* evaluate call.
C31_CyclePassOncePerMember ==
    /\ \A n \in Range(nodes) :
        /\ DispatchCount(n, 1) <= 1
        /\ DispatchCount(n, 2) <= 1
    /\ Done =>
        /\ \A n \in Range(tick.cycleNodes) : DispatchCount(n, 2) = 1
        /\ LET R == Reach IN
           \A n \in Range(nodes) : OnCycle(R, n) => DispatchCount(n, 2) = 1

\* A finished call in which two different cycle entries were expanded into one
\* component, each of its members dispatched once in either pass.
C31_Witness ==
    /\ Done
    /\ \E j, k \in 1 .. Len(tick.cycles) : tick.cycles[j] # tick.cycles[k]
    /\ Len(tick.cycleNodes) >= 2
    /\ \A n \in Range(tick.cycles) : <<n, tick.cycles[1]>> \in Reach
    /\ \A n \in Range(tick.cycleNodes) : DispatchCount(n, 1) = 1 /\ DispatchCount(n, 2) = 1

\* C32: the framebuffer cache and the image-dimension map hold no entry keyed
\* by a destroyed image, and no framebuffer stays attached to a destroyed
\* image, after any resizes and removals interleaved with evaluation ticks.
C32_NoEntryForDestroyedImage ==
    \A t \in 1 .. Len(glTextures) :
        glTextures[t].deleted =>
            /\ ~textureDimensionsHas(glTextures, t)
            /\ framebuffersGet(glTextures, t) = NoFramebuffer
            /\ \A f \in 1 .. Len(glFramebuffers) : glFramebuffers[f] # t

\* C33: whenever a buffer node copies an upstream image into its own image
\* during evaluation, the source image is another image than the buffer's own,
\* also for a buffer that is the direct downstream target of a program node.
C33_CopySourceIsAnotherImage ==
    \A n \in Range(nodes) :
        ntype[n] = TextureBuffer =>
            \A k \in 1 .. Len(lastEval[n].copied) : lastEval[n].copied[k] # texture[n]

\* C34: after any interleaving of beginning a connection on a node's output
\* port, deleting that node and completing the connection on an input port,
\* every edge of the graph has its source and its destination in the graph's
\* node list, and the evaluation order holds only nodes of the graph.
C34_EdgesJoinGraphNodes ==
    /\ \A k \in 1 .. Len(edges) :
        Includes(nodes, edges[k].from) /\ Includes(nodes, edges[k].to)
    /\ Range(getEvaluationOrder.order) \subseteq Range(nodes)

\* C35: a program node never draws with a program handle that has been deleted
\* and never deletes a program handle that is deleted already, across any
\* sequence of body edits and ticks.
C35_NoUseOfDeletedProgram ==
    [][\A n \in NodeIds :
        lastEval'[n].entered =>
            /\ lastEval'[n].drew =>
                    ~glPrograms'[lastEval'[n].programAfter].deleted
            /\ (lastEval'[n].compile # "none" /\ lastEval'[n].programBefore # NullProgram) =>
                    ~glPrograms[lastEval'[n].programBefore].deleted]_vars

\* C36: for every graph whose edges all connect nodes of the graph, cyclic or
\* not, the order returned by getEvaluationOrder holds every node of the graph
\* exactly once.
C36_OrderHoldsEveryNodeOnce ==
    /\ \A j, k \in 1 .. Len(tick.order) : tick.order[j] = tick.order[k] => j = k
    /\ Range(tick.order) \subseteq Range(nodes)
    /\ tick.pc \notin {"idle", "order"} => IsPermutationOfNodes(tick.order)

\* getEvaluationOrder has just returned for a graph of three nodes that all lie
\* on one cycle (no acyclic root), with a cycle entry reported.
C36_Witness ==
    /\ tick.pc = "pass1" /\ tick.i = 1
    /\ Len(nodes) = 3 /\ Len(tick.order) = 3
    /\ tick.cycles # <<>>
    /\ LET R == Reach IN \A n, m \in Range(nodes) : <<n, m>> \in R

\* The uniform name the assembled source of shader n declares for its
\* destination port: the declarations are in ascending order of connected port.
DeclaredName(n, port) ==
    LET incoming == getEdgesTo(n)
        connectedPorts == {incoming[k].toPort : k \in 1 .. Len(incoming)}
    IN getFullShaderCode(n).declarations[
            Cardinality({q \in connectedPorts : q <= port})]

\* C37: for every inbound edge of a program node from a buffer or program
\* node, the uniform name under which the source image is bound at execution
\* is the name declared for the edge's destination port in the source of the
\* same tick: every declared uniform has a bound image and every bound name
\* is declared.
C37_BoundNamesAreDeclaredNames ==
    \A n \in Range(nodes) :
        (ntype[n] = Shader /\ lastEval[n].entered) =>
            LET bound == lastEval[n].inputTextures
                incoming == getEdgesTo(n)
            IN /\ \A k \in 1 .. Len(bound) :
                    bound[k].name = DeclaredName(n, bound[k].toPort)
               /\ \A k \in 1 .. Len(incoming) :
                    \E j \in 1 .. Len(bound) :
                        /\ bound[j].toPort = incoming[k].toPort
                        /\ bound[j].name = DeclaredName(n, incoming[k].toPort)
               /\ {bound[k].name : k \in 1 .. Len(bound)}
                    = Range(getFullShaderCode(n).declarations)

\* C38: after any connection creations, connection deletions and buffer
\* renames, the uniform names declared in a program node's assembled source are
\* pairwise distinct.
C38_DeclaredNamesDistinct ==
    \A n \in Range(nodes) :
        ntype[n] = Shader =>
            LET declarations == getFullShaderCode(n).declarations IN
            \A j, k \in 1 .. Len(declarations) :
                declarations[j] = declarations[k] => j = k

\* C39: for a program node restored with a non-empty body, whenever its editor
\* finishes initializing relative to the restore timer and to state saves, no
\* snapshot taken after the restore records the editor's default template as
\* the node's body (here: while the timer that is to restore the body is still
\* pending, the stored body of the node is not the template).
C39_SnapshotKeepsRestoredBody ==
    \A n \in Range(nodes) :
        (/\ ntype[n] = Shader
         /\ pendingCode[n] \notin {NothingPending, TemplateBody}
         /\ storage.saved) =>
            \A k \in 1 .. Len(storage.nodes) :
                storage.nodes[k].id = n => storage.nodes[k].code # TemplateBody

====
